---------------------------- MODULE Spec2Model ----------------------------
(***************************************************************************)
(* Eevee light-probe baking (eevee_lightcache.c): the bake job's sample    *)
(* scheduler, its cancellation and progress accounting, the light cache's  *)
(* status flags, and the hierarchical cell indexing of irradiance grids.   *)
(*                                                                         *)
(* The specifications share the variables below:                           *)
(*   Spec      the bake job: allocate, run sample by sample, free, with    *)
(*             the environment (cancellation requests, the viewport's      *)
(*             quick world update) interleaved at the sample boundaries;   *)
(*             the GPU's texture creations succeed;                        *)
(*   SpecFair  Spec with the job's thread weakly fair;                     *)
(*   SpecCell  compute_cell_id swept over the sample indices of one grid;  *)
(*   SpecFn    compute_cell_id, EEVEE_lightcache_validate,                 *)
(*             EEVEE_lightcache_create and irradiance_pool_size_get called *)
(*             once on chosen arguments, texture creation failing or not;  *)
(*   SpecJobFn a behaviour of Spec or a behaviour of SpecFn;               *)
(*   SpecRefcount  the reference-counted cache of the view-layer data      *)
(*             (EEVEE_lightcache_ensure / add_reference / free);           *)
(*   SpecGather  the gather pass of the reference-counted version.         *)
(***************************************************************************)
EXTENDS Integers, Sequences, FiniteSets, TLC

VARIABLES
    objects,             \* the evaluated scene graph, in render iteration order
    eevee,               \* scene_eval->eevee: the SceneEEVEE settings read by the job
    light_cache,         \* scene->eevee.light_cache (NoCache when NULL)
    lbake,               \* the EEVEE_LightBake job data (NoJob before allocation)
    pc,                  \* position of the job in EEVEE_lightbake_job
    in_sample,           \* inside lightbake_do_sample, past the G.is_break poll
    is_break,            \* G.is_break
    stop,                \* the caller's *stop
    do_update,           \* the caller's *do_update
    progress,            \* the caller's *progress, as <<numerator, denominator>>
    ctx,                 \* who holds the draw context: "none" or "job"
    rendered,            \* history: the render callbacks run so far, in order
    skipped,             \* history: number of lightbake_do_sample calls that returned false
    quick_updated,       \* history: the viewport has made a quick world update
    cell_res,            \* SpecCell: the grid resolution swept
    cell_idx,            \* SpecCell: the next sample index of the sweep
    sweep,               \* SpecCell: the results of compute_cell_id so far
    trace,               \* history: the job's context, GPU resource and cache-write events
    cache_instance,      \* history: which allocation light_cache points to (0 when NULL)
    scene_eval,          \* scene_eval->eevee.light_cache: the allocation it points to (0 when none)
    tex,                 \* the irradiance textures: lcache->grid_tx, lbake->grid_prev, last read/write
    irr_written,         \* history: <<bounce, slot>> of each irradiance slot a grid sample wrote
    call,                \* SpecFn, SpecCell: the last call of a function on chosen arguments
    sldata,              \* SpecRefcount: the light_cache pointer of each view-layer data
    caches,              \* SpecRefcount: the reference-counted caches allocated so far
    gather               \* SpecGather: the loop of eevee_lightcache_gather_probes

vars == <<objects, eevee, light_cache, lbake, pc, in_sample, is_break,
          stop, do_update, progress, ctx, rendered, skipped, quick_updated,
          trace, cache_instance, scene_eval, tex, irr_written,
          cell_res, cell_idx, sweep, call, sldata, caches, gather>>

jobVars == <<objects, eevee, light_cache, lbake, pc, in_sample, is_break,
             stop, do_update, progress, ctx, rendered, skipped, quick_updated,
             trace, cache_instance, scene_eval, tex, irr_written>>

gpuVars == <<scene_eval, tex, irr_written>>

cellVars == <<cell_res, cell_idx, sweep>>

fnVars == <<call>>

refVars == <<sldata, caches, gather>>

----------------------------------------------------------------------------
(* Bounds of the model. *)

\* Largest grid resolution per axis swept by SpecCell.
MaxCellRes == 4

\* Most objects in the scene graph of a bake job.
MaxObjects == 2

\* Most cells (and so the largest resolution per axis) of a grid probe of a bake job.
MaxGridCells == 2

\* Largest gi_diffuse_bounces of the scene.
MaxBounces == 2

\* How far outside 0 .. rx*ry*rz-1 the sample indices given to compute_cell_id reach.
MaxOutOfRange == 2

\* Most reference-counted caches allocated in one behaviour of SpecRefcount.
MaxCaches == 3

\* Largest sample total irradiance_pool_size_get is called on.
MaxPoolSamples == 70000

----------------------------------------------------------------------------
(* Null pointers. *)

NoCache == [null |-> TRUE]
NoJob == [null |-> TRUE]
NoScene == [null |-> TRUE]

\* No function has been called yet.
NoCall == [fn |-> "none"]
NoGather == [null |-> TRUE]

\* The view-layer data that can hold a reference-counted cache: the original
\* one, its evaluated copy in the depsgraph of a bake, and the one of a viewport.
ViewLayers == {"original", "evaluated", "viewport"}

----------------------------------------------------------------------------
(* Cell indexing. *)

Max2(a, b) == IF a >= b THEN a ELSE b

MAX3(a, b, c) == Max2(Max2(a, b), c)

\* 1 << n
RECURSIVE Shl1(_)
Shl1(n) == IF n <= 0 THEN 1 ELSE 2 * Shl1(n - 1)

\* (int)floorf(log2f((float)n)) for n >= 1
RECURSIVE FloorLog2(_)
FloorLog2(n) == IF n <= 1 THEN 0 ELSE 1 + FloorLog2(n \div 2)

CellCount(res) == res[1] * res[2] * res[3]

\* The local cell <<x, y, z>> of a linear cell index.
cell_id_to_grid_loc(res, cell_i) ==
    << cell_i \div (res[3] * res[2]),
       (cell_i \div res[3]) % res[2],
       cell_i % res[3] >>

AllMultiple(loc, stride) ==
    /\ loc[1] % stride = 0
    /\ loc[2] % stride = 0
    /\ loc[3] % stride = 0

\* The test without its exception for cell 0 at the coarsest level.
CellVisitedAtNoRoot(res, lvl, max_lvl, i) ==
    LET stride == Shl1(lvl)
        prev_stride == 2 * stride
        loc == cell_id_to_grid_loc(res, i)
    IN  /\ AllMultiple(loc, stride)
        /\ ~AllMultiple(loc, prev_stride)

\* The test of the inner loop body: cell i counts as visited at level lvl.
CellVisitedAt(res, lvl, max_lvl, i) ==
    LET stride == Shl1(lvl)
        prev_stride == 2 * stride
        loc == cell_id_to_grid_loc(res, i)
    IN  /\ AllMultiple(loc, stride)
        /\ \/ ~AllMultiple(loc, prev_stride)
           \/ (i = 0 /\ lvl = max_lvl)

\* The cells counted by one pass of the inner loop (i ascending), each with the
\* stride of the level.
LevelVisits(res, lvl, max_lvl) ==
    LET cells == [k \in 1..CellCount(res) |-> k - 1]
        hit == SelectSeq(cells, LAMBDA i : CellVisitedAt(res, lvl, max_lvl, i))
    IN  [k \in 1..Len(hit) |-> [final_idx |-> hit[k], stride |-> Shl1(lvl)]]

\* The cells counted by the outer loop from level lvl down to level 0.
RECURSIVE VisitsFrom(_, _, _)
VisitsFrom(res, lvl, max_lvl) ==
    IF lvl < 0 THEN << >>
    ELSE LevelVisits(res, lvl, max_lvl) \o VisitsFrom(res, lvl - 1, max_lvl)

\* The same loops with the levels walked finest first.
RECURSIVE VisitsUpTo(_, _, _)
VisitsUpTo(res, lvl, max_lvl) ==
    IF lvl < 0 THEN << >>
    ELSE VisitsUpTo(res, lvl - 1, max_lvl) \o LevelVisits(res, lvl, max_lvl)

VisitOrderAscending(res) ==
    LET max_lvl == FloorLog2(MAX3(res[1], res[2], res[3]))
    IN  VisitsUpTo(res, max_lvl, max_lvl)

\* The cells in the order the two loops count them.
VisitOrder(res) ==
    LET max_lvl == FloorLog2(MAX3(res[1], res[2], res[3]))
    IN  VisitsFrom(res, max_lvl, max_lvl)

\* compute_cell_id: the cell_idx-th counted cell.  When the loops run out
\* (BLI_assert(0)) the outputs keep the values of the last iteration: the last
\* cell and the stride of level 0.
compute_cell_id(res, idx) ==
    LET order == VisitOrder(res)
    IN  IF idx >= 0 /\ idx < Len(order)
        THEN [final_idx |-> order[idx + 1].final_idx,
              local_cell |-> cell_id_to_grid_loc(res, order[idx + 1].final_idx),
              stride |-> order[idx + 1].stride,
              found |-> TRUE]
        ELSE [final_idx |-> CellCount(res) - 1,
              local_cell |-> cell_id_to_grid_loc(res, CellCount(res) - 1),
              stride |-> 1,
              found |-> FALSE]

----------------------------------------------------------------------------
(* Light cache. *)

IRRADIANCE_SAMPLE_SIZE_X == 4
IRRADIANCE_SAMPLE_SIZE_Y == 2
IRRADIANCE_MAX_POOL_LAYER == 256
IRRADIANCE_MAX_POOL_SIZE == 1024

Min2(a, b) == IF a <= b THEN a ELSE b

\* (int)ceilf((float)a / (float)b) for a >= 0, b > 0
CeilDiv(a, b) == (a + b - 1) \div b

irradiance_pool_size_get(visibility_size, total_samples) ==
    LET irr_per_vis == (visibility_size \div IRRADIANCE_SAMPLE_SIZE_X) *
                       (visibility_size \div IRRADIANCE_SAMPLE_SIZE_Y)
        layer_ct == Min2(irr_per_vis + 1, IRRADIANCE_MAX_POOL_LAYER)
        texel_ct == CeilDiv(total_samples, layer_ct - 1)
        per_row == IRRADIANCE_MAX_POOL_SIZE \div visibility_size
    IN  << visibility_size * Max2(1, Min2(texel_ct, per_row)),
           visibility_size * Max2(1, texel_ct \div per_row),
           layer_ct >>

\* The smallest n >= from with n * n >= sq: (int)ceilf(sqrtf(sq)).
RECURSIVE CeilSqrtFrom(_, _)
CeilSqrtFrom(sq, from) ==
    IF from * from >= sq THEN from ELSE CeilSqrtFrom(sq, from + 1)

\* The side of the octahedral map that holds a cubemap of side cube_size.
OCTAHEDRAL_SIZE_FROM_CUBESIZE(cube_size) ==
    CeilSqrtFrom(6 * cube_size * cube_size, 2 * cube_size)

LIGHTCACHE_UPDATE_WORLD == "UPDATE_WORLD"
LIGHTCACHE_UPDATE_CUBE == "UPDATE_CUBE"
LIGHTCACHE_UPDATE_GRID == "UPDATE_GRID"
LIGHTCACHE_BAKING == "BAKING"
LIGHTCACHE_CUBE_READY == "CUBE_READY"
LIGHTCACHE_GRID_READY == "GRID_READY"
LIGHTCACHE_BAKED == "BAKED"

LightCacheFlags ==
    {LIGHTCACHE_UPDATE_WORLD, LIGHTCACHE_UPDATE_CUBE, LIGHTCACHE_UPDATE_GRID,
     LIGHTCACHE_BAKING, LIGHTCACHE_CUBE_READY, LIGHTCACHE_GRID_READY, LIGHTCACHE_BAKED}

\* A zeroed EEVEE_LightGrid / EEVEE_LightProbe (MEM_callocN).
ZeroGrid == [offset |-> 0, resolution |-> <<0, 0, 0>>, level_bias |-> 0]
ZeroCube == [ob |-> 0]

\* The comparison without the layer counts.
validate_ignoring_layers(lcache, cube_count, cube_res, irr_size) ==
    /\ ~lcache.null
    /\ irr_size[1] = lcache.grid_tx[1]
    /\ irr_size[2] = lcache.grid_tx[2]
    /\ cube_res = lcache.cube_tx.width

EEVEE_lightcache_validate(lcache, cube_count, cube_res, irr_size) ==
    /\ ~lcache.null
    /\ irr_size[1] = lcache.grid_tx[1]
    /\ irr_size[2] = lcache.grid_tx[2]
    /\ irr_size[3] = lcache.grid_tx[3]
    /\ cube_res = lcache.cube_tx.width
    /\ cube_count = lcache.cube_tx.layers

EEVEE_lightcache_create(grid_count, cube_count, cube_size, irr_size) ==
    [null |-> FALSE,
     cube_data |-> [i \in 0..(cube_count - 1) |-> ZeroCube],
     grid_data |-> [i \in 0..(grid_count - 1) |-> ZeroGrid],
     grid_tx |-> irr_size,
     cube_tx |-> [width |-> cube_size, layers |-> cube_count],
     flag |-> {LIGHTCACHE_UPDATE_WORLD, LIGHTCACHE_UPDATE_CUBE, LIGHTCACHE_UPDATE_GRID},
     cube_count |-> 0,
     grid_count |-> 0,
     vis_res |-> 0]

\* What DRW_texture_create_2D_array returns when the GPU cannot create the texture.
NoTexture == [null |-> TRUE]

\* EEVEE_lightcache_create with the outcome of its two texture creations given:
\* the cache is returned whether or not the textures were made.
EEVEE_lightcache_create_gpu(tx_made, grid_count, cube_count, cube_size, irr_size) ==
    LET made == EEVEE_lightcache_create(grid_count, cube_count, cube_size, irr_size)
    IN  [made EXCEPT
            !.grid_tx = IF tx_made.grid_tx THEN @ ELSE NoTexture,
            !.cube_tx = IF tx_made.cube_tx THEN @ ELSE NoTexture]

----------------------------------------------------------------------------
(* Scene graph. *)

GridResolutions ==
    {r \in (1..MaxGridCells) \X (1..MaxGridCells) \X (1..MaxGridCells) :
        CellCount(r) <= MaxGridCells}

\* A light-probe object: its probe type and, for a grid, its resolution.
ProbeObjects ==
    [type : {"GRID"}, res : GridResolutions]
        \cup [type : {"CUBE", "PLANAR"}, res : {<<1, 1, 1>>}]

RECURSIVE SeqsUpTo(_, _)
SeqsUpTo(S, n) ==
    IF n = 0 THEN {<< >>}
    ELSE LET shorter == SeqsUpTo(S, n - 1)
         IN  shorter \cup {Append(q, x) : q \in {t \in shorter : Len(t) = n - 1}, x \in S}

Scenes == SeqsUpTo(ProbeObjects, MaxObjects)

----------------------------------------------------------------------------
(* Probe counting and gathering. *)

\* eevee_lightbake_count_probes over the objects from index i on.
RECURSIVE count_probes_from(_, _, _)
count_probes_from(objs, i, acc) ==
    IF i > Len(objs) THEN acc
    ELSE count_probes_from(objs, i + 1,
            IF objs[i].type = "GRID"
            THEN [acc EXCEPT !.total_irr_samples = @ + CellCount(objs[i].res),
                             !.grid_count = @ + 1]
            ELSE IF objs[i].type = "CUBE"
            THEN [acc EXCEPT !.cube_count = @ + 1]
            ELSE acc)

eevee_lightbake_count_probes(objs) ==
    count_probes_from(objs, 1, [grid_count |-> 1, cube_count |-> 1, total_irr_samples |-> 1])

\* EEVEE_lightprobes_grid_data_from_object: the grid record of a probe object;
\* its offset is the running sample total, which the caller then advances.
EEVEE_lightprobes_grid_data_from_object(ob, offset) ==
    [offset |-> offset, resolution |-> ob.res, level_bias |-> 1]

\* eevee_lightbake_gather_probes over the objects from index i on.  acc holds the
\* loop's locals and the arrays written (probe pointers are object indices).
RECURSIVE gather_probes_from(_, _, _)
gather_probes_from(objs, i, acc) ==
    IF i > Len(objs) THEN acc
    ELSE gather_probes_from(objs, i + 1,
            IF objs[i].type = "GRID"
            THEN [acc EXCEPT
                    !.grid_prb = [@ EXCEPT ![acc.grid_count] = i],
                    !.grid_data = [@ EXCEPT ![acc.grid_count] =
                        EEVEE_lightprobes_grid_data_from_object(objs[i], acc.total_irr_samples)],
                    !.total_irr_samples = @ + CellCount(objs[i].res),
                    !.grid_count = @ + 1]
            ELSE IF objs[i].type = "CUBE"
            THEN [acc EXCEPT
                    !.cube_prb = [@ EXCEPT ![acc.cube_count] = i],
                    !.cube_data = [@ EXCEPT ![acc.cube_count] = [ob |-> i]],
                    !.cube_count = @ + 1]
            ELSE acc)

eevee_lightbake_gather_probes(objs, lb, lcache) ==
    gather_probes_from(objs, 1,
        [grid_count |-> 1, cube_count |-> 1, total_irr_samples |-> 1,
         grid_prb |-> lb.grid_prb, cube_prb |-> lb.cube_prb,
         grid_data |-> lcache.grid_data, cube_data |-> lcache.cube_data])

\* eevee_lightbake_gather_probes writes lcache->grid_data[1 .. grid_count-1] and
\* lcache->cube_data[1 .. cube_count-1] with the counts of the scene, whatever
\* the lengths the arrays were allocated with: it overflows a shorter array.
gather_overflows(lb, lcache) ==
    \/ lb.grid_count > Cardinality(DOMAIN lcache.grid_data)
    \/ lb.cube_count > Cardinality(DOMAIN lcache.cube_data)

\* The memory gather writes: the cache's arrays, and past the end of a shorter
\* array the heap that follows it.  Writing there is undefined: either the
\* records land in the heap and are read back from it, or the job dies.
HeapBeyond(lb, lcache) ==
    [lcache EXCEPT
        !.grid_data = [i \in 0..(Max2(lb.grid_count, Cardinality(DOMAIN @)) - 1) |->
                            IF i \in DOMAIN @ THEN @[i] ELSE ZeroGrid],
        !.cube_data = [i \in 0..(Max2(lb.cube_count, Cardinality(DOMAIN @)) - 1) |->
                            IF i \in DOMAIN @ THEN @[i] ELSE ZeroCube]]

\* The total with the cube samples left out.
LightbakeTotalWithoutCubes(lb) ==
    lb.total_irr_samples * lb.bounce_count

\* lbake->total as set at the end of gather_probes.
LightbakeTotal(lb) ==
    lb.total_irr_samples * lb.bounce_count + lb.cube_count

----------------------------------------------------------------------------
(* The events a job leaves in its trace: <<kind, what>>.  The execution      *)
(* context is acquired and released ("render_context" for a background job  *)
(* with its own gl_context, "draw_context" on the main thread); GPU          *)
(* resources are allocated and freed; fields of the shared cache are written.*)

Event(kind, what) == <<<<kind, what>>>>

\* DRW_TEXTURE_FREE_SAFE / GPU_FRAMEBUFFER_FREE_SAFE: frees what is not NULL.
FreeSafe(allocated, what) == IF allocated THEN Event("free", what) ELSE << >>

eevee_lightbake_context_enable(lb) ==
    IF lb.gl_context
    THEN Event("acquire", "render_context")
            \o (IF lb.gwn_context THEN << >> ELSE Event("create", "gwn_context"))
            \o Event("activate", "gwn_context")
    ELSE Event("acquire", "draw_context")

\* The release left out: the context stays with the job.
context_disable_missing(lb) == << >>

eevee_lightbake_context_disable(lb) ==
    IF lb.gl_context
    THEN Event("deactivate", "gwn_context") \o Event("release", "render_context")
    ELSE Event("release", "draw_context")

eevee_lightbake_create_render_target ==
    Event("alloc", "rt_depth") \o Event("alloc", "rt_color")
        \o Event("alloc", "rt_fb") \o Event("alloc", "store_fb")

\* The render targets created before the context is acquired.
render_target_before_context(lb) ==
    eevee_lightbake_create_render_target
        \o eevee_lightbake_context_enable(lb)
        \o eevee_lightbake_context_disable([lb EXCEPT !.gwn_context = lb.gl_context])

\* EEVEE_lightbake_job, the block that creates the render targets.
render_target_in_context(lb) ==
    eevee_lightbake_context_enable(lb)
        \o eevee_lightbake_create_render_target
        \o eevee_lightbake_context_disable([lb EXCEPT !.gwn_context = lb.gl_context])

eevee_lightbake_delete_resources(lb) ==
    (IF lb.gl_context
     THEN Event("acquire", "render_context") \o Event("activate", "gwn_context")
     ELSE IF ~lb.resource_only THEN Event("acquire", "draw_context")
     ELSE << >>)
    \o FreeSafe(lb.rt_depth, "rt_depth")
    \o FreeSafe(lb.rt_color, "rt_color")
    \o FreeSafe(lb.grid_prev, "grid_prev")
    \o FreeSafe(lb.store_fb, "store_fb")
    \o FreeSafe(lb.rt_fb, "rt_fb")
    \o (IF lb.gl_context
        THEN Event("deactivate", "gwn_context") \o Event("activate", "gwn_context")
                \o Event("discard", "gwn_context")
                \o Event("release", "render_context")
                \o Event("dispose", "gl_context")
        ELSE IF ~lb.resource_only THEN Event("release", "draw_context")
        ELSE << >>)

eevee_lightbake_copy_irradiance(lb) ==
    FreeSafe(lb.grid_prev, "grid_prev") \o Event("alloc", "grid_prev")

EEVEE_lightcache_free_events ==
    Event("free", "cube_tx") \o Event("free", "grid_tx")

EEVEE_lightcache_create_events ==
    Event("alloc", "grid_tx") \o Event("alloc", "cube_tx")

\* The cache writes of eevee_lightbake_gather_probes: one record per probe.
gather_probes_events(objs) ==
    LET probes == SelectSeq(objs, LAMBDA ob : ob.type \in {"GRID", "CUBE"})
    IN  [k \in 1..Len(probes) |->
            <<"write", IF probes[k].type = "GRID" THEN "grid_data" ELSE "cube_data">>]

----------------------------------------------------------------------------
(* The irradiance textures.  A texture is the allocation it is (id) and what *)
(* it holds: nothing yet (created with NULL data), the irradiance being      *)
(* accumulated, or the copy made at the end of a bounce (-1: of the world    *)
(* pass).  tex.grid_tx is lcache->grid_tx and tex.grid_prev lbake->grid_prev; *)
(* tex.read is what lcache->grid_tx pointed to while the last grid sample    *)
(* rendered the scene, tex.wrote the texture its filtering wrote.            *)

UNINITIALISED == <<"uninitialised", 0>>
IRRADIANCE == <<"irradiance", 0>>
SnapshotOf(bounce) == <<"snapshot", bounce>>

Texture(id, holds) == [null |-> FALSE, id |-> id, holds |-> holds]

\* SWAP(GPUTexture *, lbake->grid_prev, lcache->grid_tx)
SwapTextures(tx) == [tx EXCEPT !.grid_tx = tx.grid_prev, !.grid_prev = tx.grid_tx]

\* eevee_lightbake_copy_irradiance on the textures: grid_prev is freed and
\* becomes a new texture holding a copy of lcache->grid_tx.
copy_irradiance_textures(tx, bounce) ==
    [tx EXCEPT
        !.grid_prev = Texture(tx.next, SnapshotOf(bounce)),
        !.next = @ + 1]

\* eevee_lightbake_create_resources on the textures: a new grid_prev, and a new
\* grid_tx with a new cache.
create_resources_textures(tx, reused) ==
    IF reused
    THEN [tx EXCEPT
            !.grid_prev = Texture(tx.next, UNINITIALISED),
            !.next = @ + 1]
    ELSE [tx EXCEPT
            !.grid_prev = Texture(tx.next, UNINITIALISED),
            !.grid_tx = Texture(tx.next + 1, UNINITIALISED),
            !.next = @ + 2]

\* The world sample: grid_prev is cleared and filled, swapped into the cache,
\* and copied.
world_sample_textures(tx) ==
    LET filled == [tx EXCEPT !.grid_prev.holds = IRRADIANCE]
    IN  copy_irradiance_textures(SwapTextures(filled), -1)

\* The grid sample without its second swap: the cache is left with the snapshot.
grid_sample_textures_swapped_once(tx, bounce, is_last) ==
    LET during == SwapTextures(tx)
        filtered == [during EXCEPT
                        !.read = during.grid_tx,
                        !.wrote = during.grid_tx.id,
                        !.grid_tx.holds = IRRADIANCE]
    IN  IF is_last THEN copy_irradiance_textures(filtered, bounce) ELSE filtered

\* The grid sample: the scene is rendered between the two swaps, the filtering
\* writes the cache's texture after the second, the last sample of a bounce copies.
grid_sample_textures(tx, bounce, is_last) ==
    LET during == SwapTextures(tx)
        after == SwapTextures(during)
        filtered == [after EXCEPT
                        !.read = during.grid_tx,
                        !.wrote = after.grid_tx.id,
                        !.grid_tx.holds = IRRADIANCE]
    IN  IF is_last THEN copy_irradiance_textures(filtered, bounce) ELSE filtered

\* eevee_lightbake_delete_resources on the textures: grid_prev is freed.
delete_resources_textures(tx) == [tx EXCEPT !.grid_prev = NoTexture]

\* The textures of a scene before a job: those of its cache, if it has one.
InitialTextures(lcache) ==
    [next |-> 2,
     grid_tx |-> IF lcache.null THEN NoTexture ELSE Texture(1, IRRADIANCE),
     grid_prev |-> NoTexture,
     read |-> NoTexture,
     wrote |-> 0]

----------------------------------------------------------------------------
(* Bake job: allocation. *)

\* eevee_lightbake_create_resources: the job's sizes and probe arrays, and the
\* scene's cache, reused when it validates and recreated when it does not.
create_resources_lbake(lb, ev) ==
    [lb EXCEPT
        !.bounce_count = ev.gi_diffuse_bounces,
        !.vis_res = ev.gi_visibility_resolution,
        !.rt_res = ev.gi_cubemap_resolution,
        !.irr_size = irradiance_pool_size_get(ev.gi_visibility_resolution, lb.total_irr_samples),
        !.ref_cube_res = OCTAHEDRAL_SIZE_FROM_CUBESIZE(ev.gi_cubemap_resolution),
        !.cube_prb = [i \in 0..(lb.cube_count - 1) |-> 0],
        !.grid_prb = [i \in 0..(lb.grid_count - 1) |-> 0],
        !.grid_prev = TRUE]

\* The scene's cache taken as it is, whatever its shape.
create_resources_keeping_cache(lb, lcache) ==
    LET ready == IF lcache.null
                 THEN EEVEE_lightcache_create(lb.grid_count, lb.cube_count,
                                              lb.ref_cube_res, lb.irr_size)
                 ELSE lcache
    IN  [ready EXCEPT
            !.vis_res = lb.vis_res,
            !.flag = {LIGHTCACHE_UPDATE_WORLD, LIGHTCACHE_UPDATE_CUBE,
                      LIGHTCACHE_UPDATE_GRID, LIGHTCACHE_BAKING}]

\* The flags of the job added to those the cache has, none of them dropped.
create_resources_keeping_flags(lb, lcache) ==
    LET kept == IF ~lcache.null /\
                   ~EEVEE_lightcache_validate(lcache, lb.cube_count, lb.ref_cube_res, lb.irr_size)
                THEN NoCache
                ELSE lcache
        ready == IF kept.null
                 THEN EEVEE_lightcache_create(lb.grid_count, lb.cube_count,
                                              lb.ref_cube_res, lb.irr_size)
                 ELSE kept
    IN  [ready EXCEPT
            !.vis_res = lb.vis_res,
            !.flag = @ \cup {LIGHTCACHE_UPDATE_WORLD, LIGHTCACHE_UPDATE_CUBE,
                             LIGHTCACHE_UPDATE_GRID, LIGHTCACHE_BAKING}]

create_resources_lcache(lb, lcache) ==
    LET kept == IF ~lcache.null /\
                   ~EEVEE_lightcache_validate(lcache, lb.cube_count, lb.ref_cube_res, lb.irr_size)
                THEN NoCache
                ELSE lcache
        ready == IF kept.null
                 THEN EEVEE_lightcache_create(lb.grid_count, lb.cube_count,
                                              lb.ref_cube_res, lb.irr_size)
                 ELSE kept
    IN  [ready EXCEPT
            !.vis_res = lb.vis_res,
            !.flag = {LIGHTCACHE_UPDATE_WORLD, LIGHTCACHE_UPDATE_CUBE,
                      LIGHTCACHE_UPDATE_GRID, LIGHTCACHE_BAKING}]

\* The scene's cache is neither NULL nor a mismatch: it is taken as it is.
cache_is_reused(lb, lcache) ==
    /\ ~lcache.null
    /\ EEVEE_lightcache_validate(lcache, lb.cube_count, lb.ref_cube_res, lb.irr_size)

create_resources_events(lb, lcache) ==
    Event("alloc", "grid_prev")
        \o (IF ~lcache.null /\ ~cache_is_reused(lb, lcache)
            THEN EEVEE_lightcache_free_events ELSE << >>)
        \o (IF ~cache_is_reused(lb, lcache)
            THEN EEVEE_lightcache_create_events ELSE << >>)
        \o Event("write", "vis_res") \o Event("write", "flag")

\* The evaluated scene keeps the pointer the depsgraph copied into it.
create_resources_without_sharing(copied, lcache_instance) == copied

\* scene_eval->eevee.light_cache = lcache, the last line of create_resources:
\* copied is the pointer the evaluation of the depsgraph had copied from the
\* original scene, before the cache was validated.
create_resources_scene_eval(copied, lcache_instance) == lcache_instance

\* EEVEE_lightbake_job_data_alloc: a zeroed job with the probe counts of the scene.
\* The GPU resources the job owns are TRUE while allocated.
job_data_alloc(objs, run_as_job) ==
    LET cnt == eevee_lightbake_count_probes(objs)
    IN  [null |-> FALSE,
         gl_context |-> run_as_job,
         gwn_context |-> FALSE,
         resource_only |-> FALSE,
         grid_count |-> cnt.grid_count,
         cube_count |-> cnt.cube_count,
         total_irr_samples |-> cnt.total_irr_samples,
         bounce_count |-> 0,
         vis_res |-> 0,
         rt_res |-> 0,
         irr_size |-> <<0, 0, 0>>,
         ref_cube_res |-> 0,
         cube_prb |-> << >>,
         grid_prb |-> << >>,
         grid_prev |-> FALSE,
         rt_depth |-> FALSE,
         rt_color |-> FALSE,
         rt_fb |-> FALSE,
         store_fb |-> FALSE,
         bounce_curr |-> 0,
         probe |-> 0,
         grid_sample |-> 0,
         cube_offset |-> 0,
         total |-> 0,
         done |-> 0]

AllocateJob ==
    /\ pc = "none"
    /\ ctx = "none"
    /\ \E run_as_job \in BOOLEAN :
        LET lb == create_resources_lbake(job_data_alloc(objects, run_as_job), eevee)
        IN  /\ lbake' = lb
            /\ light_cache' = create_resources_lcache(lb, light_cache)
            /\ cache_instance' = IF cache_is_reused(lb, light_cache)
                                 THEN cache_instance ELSE cache_instance + 1
            /\ scene_eval' = create_resources_scene_eval(cache_instance, cache_instance')
            /\ tex' = create_resources_textures(tex, cache_is_reused(lb, light_cache))
            /\ trace' = trace
                    \o (IF run_as_job THEN Event("create", "gl_context") ELSE << >>)
                    \o Event("acquire", "draw_context")
                    \o create_resources_events(lb, light_cache)
                    \o Event("release", "draw_context")
    /\ pc' = "allocated"
    /\ UNCHANGED <<objects, eevee, in_sample, is_break, stop, do_update, progress, ctx,
                   rendered, skipped, quick_updated, irr_written, cellVars, fnVars, refVars>>

----------------------------------------------------------------------------
(* Bake job: the loops of EEVEE_lightbake_job. *)

\* The sample count taken one too large.
GridSampleCountOneMore(lb) == CellCount(objects[lb.grid_prb[lb.probe]].res) + 1

\* grid_sample_count of the grid probe at lbake->probe.
GridSampleCount(lb) == CellCount(objects[lb.grid_prb[lb.probe]].res)

\* The head of the bounce loop with bounce_curr = b: the first sample of the
\* bounce, or the reflections when no grid sample is left.
EnterBounce(lb, b) ==
    IF b < lb.bounce_count /\ 1 < lb.grid_count
    THEN [pc |-> "grid",
          lb |-> [lb EXCEPT !.bounce_curr = b, !.probe = 1, !.grid_sample = 0]]
    ELSE [pc |-> "reflections",
          lb |-> [lb EXCEPT !.bounce_curr = Max2(b, lb.bounce_count)]]

\* The sample loop with its bound off by one: it runs one sample too many.
AfterGridSampleOneTooMany(lb) ==
    IF lb.grid_sample + 1 <= GridSampleCount(lb)
    THEN [pc |-> "grid", lb |-> [lb EXCEPT !.grid_sample = @ + 1]]
    ELSE IF lb.probe + 1 < lb.grid_count
    THEN [pc |-> "grid", lb |-> [lb EXCEPT !.probe = @ + 1, !.grid_sample = 0]]
    ELSE EnterBounce([lb EXCEPT !.probe = @ + 1], lb.bounce_curr + 1)

\* The loop steps after the grid sample at (bounce_curr, probe, grid_sample).
AfterGridSample(lb) ==
    IF lb.grid_sample + 1 < GridSampleCount(lb)
    THEN [pc |-> "grid", lb |-> [lb EXCEPT !.grid_sample = @ + 1]]
    ELSE IF lb.probe + 1 < lb.grid_count
    THEN [pc |-> "grid", lb |-> [lb EXCEPT !.probe = @ + 1, !.grid_sample = 0]]
    ELSE EnterBounce([lb EXCEPT !.probe = @ + 1, !.grid_sample = @ + 1], lb.bounce_curr + 1)

\* The cube loop without its increment: the same cube probe again.
AfterCubeSampleStuck(lb) ==
    [pc |-> "cube", lb |-> lb]

\* The loop step after the cube sample at cube_offset.
AfterCubeSample(lb) ==
    [pc |-> IF lb.cube_offset + 1 < lb.cube_count THEN "cube" ELSE "finish",
     lb |-> [lb EXCEPT !.cube_offset = @ + 1]]

\* Where the job continues after the lightbake_do_sample call at pc.
AfterSample(at, lb) ==
    IF at = "world" THEN EnterBounce(lb, 0)
    ELSE IF at = "grid" THEN AfterGridSample(lb)
    ELSE AfterCubeSample(lb)

\* The sample the job is about to render, as recorded in the history.
CurrentSample(at, lb) ==
    IF at = "world" THEN <<"world", 0, 0, 0>>
    ELSE IF at = "grid" THEN <<"grid", lb.bounce_curr, lb.probe, lb.grid_sample>>
    ELSE <<"cube", lb.cube_offset, 0, 0>>

\* EEVEE_lightbake_job up to the world pass: the render targets are created under
\* the context, the probes are gathered, the counters are reset.
JobBegin ==
    /\ pc = "allocated"
    /\ ctx = "none"
    /\ LET g == eevee_lightbake_gather_probes(objects, lbake, HeapBeyond(lbake, light_cache))
           begun == [lbake EXCEPT
                            !.gwn_context = lbake.gl_context,
                            !.rt_depth = TRUE,
                            !.rt_color = TRUE,
                            !.rt_fb = TRUE,
                            !.store_fb = TRUE]
       IN  \/ /\ lbake' = [begun EXCEPT
                            !.grid_prb = g.grid_prb,
                            !.cube_prb = g.cube_prb,
                            !.total = LightbakeTotal(lbake),
                            !.done = 0]
              /\ light_cache' = [light_cache EXCEPT
                            !.grid_data = g.grid_data,
                            !.cube_data = g.cube_data]
              /\ pc' = "world"
           \/ /\ gather_overflows(lbake, light_cache)
              /\ lbake' = begun
              /\ light_cache' = light_cache
              /\ pc' = "crashed"
    /\ trace' = trace \o render_target_in_context(lbake) \o gather_probes_events(objects)
                      \o (IF gather_overflows(lbake, light_cache)
                          THEN Event("overflow", "grid_data") ELSE << >>)
    /\ UNCHANGED <<objects, eevee, in_sample, is_break, stop, do_update, progress, ctx,
                   rendered, skipped, quick_updated, cache_instance, gpuVars, cellVars, fnVars, refVars>>

\* The world pass is bypassed when the cache does not ask for a world update.
WorldNotNeeded ==
    /\ pc = "world"
    /\ ~in_sample
    /\ LIGHTCACHE_UPDATE_WORLD \notin light_cache.flag
    /\ LET nxt == EnterBounce(lbake, 0)
       IN  pc' = nxt.pc /\ lbake' = nxt.lb
    /\ UNCHANGED <<objects, eevee, light_cache, in_sample, is_break, stop, do_update,
                   progress, ctx, rendered, skipped, quick_updated, trace, cache_instance,
                   gpuVars, cellVars, fnVars, refVars>>

\* A lightbake_do_sample call is due at pc.
SampleDue ==
    /\ pc \in {"world", "grid", "cube"}
    /\ ~in_sample
    /\ pc = "world" => LIGHTCACHE_UPDATE_WORLD \in light_cache.flag

\* The poll with its test dropped: no request is ever seen.
CancelNeverRequested == FALSE

\* The cancellation request lightbake_do_sample polls.
CancelRequested == is_break

\* lightbake_do_sample returning false: the sample is skipped.
DoSampleCancelled ==
    /\ SampleDue
    /\ CancelRequested
    /\ LET nxt == AfterSample(pc, lbake)
       IN  pc' = nxt.pc /\ lbake' = nxt.lb
    /\ skipped' = skipped + 1
    /\ UNCHANGED <<objects, eevee, light_cache, in_sample, is_break, stop, do_update,
                   progress, ctx, rendered, quick_updated, trace, cache_instance,
                   gpuVars, cellVars, fnVars, refVars>>

\* lightbake_do_sample past the poll: the context is acquired.
DoSampleEnable ==
    /\ SampleDue
    /\ ~CancelRequested
    /\ ctx = "none"
    /\ ctx' = "job"
    /\ in_sample' = TRUE
    /\ trace' = trace \o eevee_lightbake_context_enable(lbake)
    /\ UNCHANGED <<objects, eevee, light_cache, lbake, pc, is_break, stop, do_update,
                   progress, rendered, skipped, quick_updated, cache_instance,
                   gpuVars, cellVars, fnVars, refVars>>

----------------------------------------------------------------------------
(* Bake job: the render callbacks. *)

\* The world sample without the last line: NeedsWorldUpdate stays set.
render_world_sample_keeping_update(lb, lcache) ==
    [lcache EXCEPT
        !.cube_count = 1,
        !.grid_count = lb.grid_count,
        !.flag = @ \cup {LIGHTCACHE_CUBE_READY, LIGHTCACHE_GRID_READY}]

eevee_lightbake_render_world_sample(lb, lcache) ==
    [lcache EXCEPT
        !.cube_count = 1,
        !.grid_count = lb.grid_count,
        !.flag = (@ \cup {LIGHTCACHE_CUBE_READY, LIGHTCACHE_GRID_READY})
                    \ {LIGHTCACHE_UPDATE_WORLD}]

eevee_lightbake_render_grid_sample(lb, lcache) ==
    LET egrid == lcache.grid_data[lb.probe]
        prb == objects[lb.grid_prb[lb.probe]]
        is_last_bounce_sample ==
            (egrid.offset + lb.grid_sample) = (lb.total_irr_samples - 1)
        cell == compute_cell_id(prb.res, lb.grid_sample)
        level_bias == IF is_last_bounce_sample THEN 1
                      ELSE IF lb.bounce_curr = 0 THEN 2 * cell.stride
                      ELSE 1
    IN  [lcache EXCEPT !.grid_data[lb.probe].level_bias = level_bias]

eevee_lightbake_render_probe_sample(lb, lcache) ==
    [lcache EXCEPT !.cube_count = @ + 1]

\* The sample is the last one of its grid, whichever grid that is.
is_last_grid_sample(lb, lcache) ==
    lb.grid_sample = CellCount(lcache.grid_data[lb.probe].resolution) - 1

\* The sample is the last one of the bounce: the last cell of the last grid.
is_last_bounce_sample(lb, lcache) ==
    (lcache.grid_data[lb.probe].offset + lb.grid_sample) = (lb.total_irr_samples - 1)

\* What the callbacks allocate, free and write, in the order of their code.
render_world_sample_events(lb) ==
    Event("write", "grid_tx")
        \o eevee_lightbake_copy_irradiance(lb)
        \o Event("write", "cube_count") \o Event("write", "grid_count")
        \o Event("write", "flag")

render_grid_sample_events(lb, lcache) ==
    Event("write", "grid_data")
        \o Event("write", "grid_tx") \o Event("write", "grid_tx")
        \o (IF is_last_bounce_sample(lb, lcache) \/ lb.bounce_curr = 0
            THEN Event("write", "grid_data") ELSE << >>)
        \o (IF is_last_bounce_sample(lb, lcache)
            THEN eevee_lightbake_copy_irradiance(lb) ELSE << >>)

render_probe_sample_events == Event("write", "cube_count")

RenderCallbackEvents(at, lb, lcache) ==
    IF at = "world" THEN render_world_sample_events(lb)
    ELSE IF at = "grid" THEN render_grid_sample_events(lb, lcache)
    ELSE render_probe_sample_events

\* The slot with the grid's offset left out.
grid_sample_offset_without_base(lb, lcache) ==
    compute_cell_id(objects[lb.grid_prb[lb.probe]].res, lb.grid_sample).final_idx

\* sample_offset of the grid sample: the irradiance slot its filtering writes.
grid_sample_offset(lb, lcache) ==
    lcache.grid_data[lb.probe].offset
        + compute_cell_id(objects[lb.grid_prb[lb.probe]].res, lb.grid_sample).final_idx

RenderCallbackTextures(at, lb, lcache, tx) ==
    IF at = "world" THEN world_sample_textures(tx)
    ELSE IF at = "grid"
         THEN grid_sample_textures(tx, lb.bounce_curr, is_last_bounce_sample(lb, lcache))
    ELSE tx

RenderCallbackSlots(at, lb, lcache) ==
    IF at = "grid" THEN << <<lb.bounce_curr, grid_sample_offset(lb, lcache)>> >> ELSE << >>

RenderCallback(at, lb, lcache) ==
    IF at = "world" THEN eevee_lightbake_render_world_sample(lb, lcache)
    ELSE IF at = "grid" THEN eevee_lightbake_render_grid_sample(lb, lcache)
    ELSE eevee_lightbake_render_probe_sample(lb, lcache)

\* The cache a callback takes: the world and the grid sample that of the
\* evaluated scene, the cube sample that of the original scene.  What is written
\* through a pointer to another allocation does not reach the scene's cache.
SampleReference(at) == IF at = "cube" THEN cache_instance ELSE scene_eval

\* lightbake_do_sample from DRW_custom_pipeline on: the callback renders, the
\* counters and the caller's outputs are written, the context is released.
DoSampleRender ==
    /\ in_sample
    /\ light_cache' = IF SampleReference(pc) = cache_instance
                      THEN RenderCallback(pc, lbake, light_cache)
                      ELSE light_cache
    /\ rendered' = Append(rendered, CurrentSample(pc, lbake))
    /\ LET nxt == AfterSample(pc, [lbake EXCEPT !.done = @ + 1])
       IN  pc' = nxt.pc /\ lbake' = nxt.lb
    /\ progress' = <<lbake.done + 1, lbake.total>>
    /\ do_update' = 1
    /\ ctx' = "none"
    /\ in_sample' = FALSE
    /\ trace' = trace \o RenderCallbackEvents(pc, lbake, light_cache)
                      \o eevee_lightbake_context_disable(lbake)
    /\ tex' = RenderCallbackTextures(pc, lbake, light_cache, tex)
    /\ irr_written' = irr_written \o RenderCallbackSlots(pc, lbake, light_cache)
    /\ UNCHANGED <<objects, eevee, is_break, stop, skipped, quick_updated, cache_instance,
                   scene_eval, cellVars, fnVars, refVars>>

\* The head of the reflection block: the cube count restarts from the world's.
RenderReflectionsBegin ==
    /\ pc = "reflections"
    /\ light_cache' = [light_cache EXCEPT !.cube_count = 1]
    /\ lbake' = [lbake EXCEPT !.cube_offset = 1]
    /\ pc' = IF 1 < lbake.cube_count THEN "cube" ELSE "finish"
    /\ trace' = trace \o Event("write", "cube_count")
    /\ UNCHANGED <<objects, eevee, in_sample, is_break, stop, do_update, progress, ctx,
                   rendered, skipped, quick_updated, cache_instance, gpuVars, cellVars, fnVars, refVars>>

\* The end of EEVEE_lightbake_job: the cache is flagged baked and the job's
\* resources are deleted (under the context, which is released again).
JobFinish ==
    /\ pc = "finish"
    /\ ctx = "none"
    /\ light_cache' = [light_cache EXCEPT !.flag = @ \cup {LIGHTCACHE_BAKED}]
    /\ lbake' = [lbake EXCEPT
                    !.rt_depth = FALSE,
                    !.rt_color = FALSE,
                    !.grid_prev = FALSE,
                    !.store_fb = FALSE,
                    !.rt_fb = FALSE,
                    !.gl_context = FALSE,
                    !.gwn_context = FALSE]
    /\ pc' = "done"
    /\ trace' = trace \o Event("write", "flag") \o eevee_lightbake_delete_resources(lbake)
    /\ tex' = delete_resources_textures(tex)
    /\ UNCHANGED <<objects, eevee, in_sample, is_break, stop, do_update, progress, ctx,
                   rendered, skipped, quick_updated, cache_instance, scene_eval, irr_written,
                   cellVars, fnVars, refVars>>

\* EEVEE_lightbake_job_data_free, after the job has run or instead of running it.
FreeJob ==
    /\ pc \in {"allocated", "done"}
    /\ lbake' = [lbake EXCEPT !.cube_prb = << >>, !.grid_prb = << >>]
    /\ pc' = "freed"
    /\ scene_eval' = 0
    /\ UNCHANGED <<objects, eevee, light_cache, in_sample, is_break, stop, do_update,
                   progress, ctx, rendered, skipped, quick_updated, trace, cache_instance,
                   tex, irr_written, cellVars, fnVars, refVars>>

----------------------------------------------------------------------------
(* Environment of the job. *)

JobRunning == pc \in {"world", "grid", "reflections", "cube", "finish"}

\* A job is cancelled once, by one of two requests.
\* The user or the system asks the running job to stop: G.is_break is raised.
RequestBreak ==
    /\ JobRunning
    /\ ~is_break
    /\ stop = 0
    /\ is_break' = TRUE
    /\ UNCHANGED <<objects, eevee, light_cache, lbake, pc, in_sample, stop, do_update,
                   progress, ctx, rendered, skipped, quick_updated, trace, cache_instance,
                   gpuVars, cellVars, fnVars, refVars>>

\* The caller of the job raises the stop flag it passed to it.
RequestStop ==
    /\ JobRunning
    /\ stop = 0
    /\ ~is_break
    /\ stop' = 1
    /\ UNCHANGED <<objects, eevee, light_cache, lbake, pc, in_sample, is_break, do_update,
                   progress, ctx, rendered, skipped, quick_updated, trace, cache_instance,
                   gpuVars, cellVars, fnVars, refVars>>

\* EEVEE_lightbake_update_world_quick on the scene's cache, from viewport drawing:
\* on the main thread, holding the draw context for the length of the call.
EEVEE_lightbake_update_world_quick(lcache) ==
    [lcache EXCEPT
        !.grid_count = Max2(1, @),
        !.cube_count = 1,
        !.flag = (@ \cup {LIGHTCACHE_CUBE_READY, LIGHTCACHE_GRID_READY})
                    \ {LIGHTCACHE_UPDATE_WORLD}]

QuickWorldUpdate ==
    /\ ~light_cache.null
    /\ pc # "crashed"
    /\ ctx = "none"
    /\ JobRunning => lbake.gl_context
    /\ light_cache' = EEVEE_lightbake_update_world_quick(light_cache)
    /\ quick_updated' = TRUE
    /\ UNCHANGED <<objects, eevee, lbake, pc, in_sample, is_break, stop, do_update,
                   progress, ctx, rendered, skipped, trace, cache_instance,
                   gpuVars, cellVars, fnVars, refVars>>

----------------------------------------------------------------------------
(* Spec: one bake job on one scene. *)

SceneSettings ==
    [gi_diffuse_bounces : 0..MaxBounces,
     gi_visibility_resolution : {16},
     gi_cubemap_resolution : {64}]

\* The cache an earlier, completed bake of the scene objs has left.
BakedCache(objs, ev) ==
    LET cnt == eevee_lightbake_count_probes(objs)
        irr == irradiance_pool_size_get(ev.gi_visibility_resolution, cnt.total_irr_samples)
        made == EEVEE_lightcache_create(cnt.grid_count, cnt.cube_count,
                    OCTAHEDRAL_SIZE_FROM_CUBESIZE(ev.gi_cubemap_resolution), irr)
        g == gather_probes_from(objs, 1,
                [grid_count |-> 1, cube_count |-> 1, total_irr_samples |-> 1,
                 grid_prb |-> [i \in 0..(cnt.grid_count - 1) |-> 0],
                 cube_prb |-> [i \in 0..(cnt.cube_count - 1) |-> 0],
                 grid_data |-> made.grid_data, cube_data |-> made.cube_data])
    IN  [made EXCEPT
            !.grid_data = g.grid_data,
            !.cube_data = g.cube_data,
            !.cube_count = cnt.cube_count,
            !.grid_count = cnt.grid_count,
            !.vis_res = ev.gi_visibility_resolution,
            !.flag = {LIGHTCACHE_UPDATE_CUBE, LIGHTCACHE_UPDATE_GRID, LIGHTCACHE_BAKING,
                      LIGHTCACHE_CUBE_READY, LIGHTCACHE_GRID_READY, LIGHTCACHE_BAKED}]

WithoutCubes(objs) == SelectSeq(objs, LAMBDA ob : ob.type # "CUBE")
WithoutGrids(objs) == SelectSeq(objs, LAMBDA ob : ob.type # "GRID")

\* The scene has no cache yet, or the cache of an earlier bake: of the same
\* scene, or of the scene before its cube probes or its grid probes were added.
PriorCaches(objs, ev) ==
    {NoCache, BakedCache(objs, ev), BakedCache(WithoutCubes(objs), ev),
     BakedCache(WithoutGrids(objs), ev)}

Init ==
    /\ objects \in Scenes
    /\ eevee \in SceneSettings
    /\ light_cache \in PriorCaches(objects, eevee)
    /\ lbake = NoJob
    /\ pc = "none"
    /\ in_sample = FALSE
    /\ is_break = FALSE
    /\ stop = 0
    /\ do_update = 0
    /\ progress = <<0, 1>>
    /\ ctx = "none"
    /\ rendered = << >>
    /\ skipped = 0
    /\ quick_updated = FALSE
    /\ trace = << >>
    /\ cache_instance = (IF light_cache.null THEN 0 ELSE 1)
    /\ scene_eval = 0
    /\ tex = InitialTextures(light_cache)
    /\ irr_written = << >>
    /\ cell_res = <<1, 1, 1>>
    /\ cell_idx = 0
    /\ sweep = << >>
    /\ call = NoCall
    /\ sldata = [vl \in ViewLayers |-> 0]
    /\ caches = << >>
    /\ gather = NoGather

Next ==
    \/ AllocateJob
    \/ JobBegin
    \/ WorldNotNeeded
    \/ DoSampleCancelled
    \/ DoSampleEnable
    \/ DoSampleRender
    \/ RenderReflectionsBegin
    \/ JobFinish
    \/ FreeJob
    \/ RequestBreak
    \/ RequestStop
    \/ QuickWorldUpdate

Spec == Init /\ [][Next]_vars

\* The steps of EEVEE_lightbake_job, which one thread runs from its first line
\* to its return: it waits only for the draw context, which the viewport holds
\* for the length of a call.
JobStep ==
    \/ WorldNotNeeded
    \/ DoSampleCancelled
    \/ DoSampleEnable
    \/ DoSampleRender
    \/ RenderReflectionsBegin
    \/ JobFinish

\* SpecFair: Spec with the job's thread scheduled: a job step that stays possible
\* is eventually taken.
SpecFair == Spec /\ WF_vars(JobStep)

----------------------------------------------------------------------------
(* Properties of the bake job (checked under Spec). *)

IsPrefix(a, b) == Len(a) <= Len(b) /\ SubSeq(b, 1, Len(a)) = a

WorldSample == <<"world", 0, 0, 0>>

\* A job exists: lbake is a job record.
JobExists == pc \in {"allocated", "world", "grid", "reflections", "cube", "finish",
                     "done", "freed"}

\* EEVEE_lightbake_job has run and returned (total is nonzero once it has begun).
JobReturned == pc = "done" \/ (pc = "freed" /\ lbake.total # 0)

\* The schedule read off the scene graph alone: the grid and cube probes in
\* object order, every bounce a full pass over the grids.
GridObjects == SelectSeq(objects, LAMBDA ob : ob.type = "GRID")
CubeObjects == SelectSeq(objects, LAMBDA ob : ob.type = "CUBE")

SamplesOfGrid(b, p) ==
    [s \in 1..CellCount(GridObjects[p].res) |-> <<"grid", b, p, s - 1>>]

RECURSIVE GridsFrom(_, _)
GridsFrom(b, p) ==
    IF p > Len(GridObjects) THEN << >>
    ELSE SamplesOfGrid(b, p) \o GridsFrom(b, p + 1)

RECURSIVE BouncesFrom(_)
BouncesFrom(b) ==
    IF b >= eevee.gi_diffuse_bounces THEN << >>
    ELSE GridsFrom(b, 1) \o BouncesFrom(b + 1)

CubeSamples == [i \in 1..Len(CubeObjects) |-> <<"cube", i, 0, 0>>]

ProbeSamples == BouncesFrom(0) \o CubeSamples

ExpectedSamples == <<WorldSample>> \o ProbeSamples

\* The world sample and some grid samples were rendered, and the next sample of
\* the schedule, skipped, was a grid sample of the same bounce.
CancelledMidBounce ==
    /\ skipped > 0
    /\ Len(rendered) >= 2
    /\ Len(rendered) < Len(ExpectedSamples)
    /\ IsPrefix(rendered, ExpectedSamples)
    /\ rendered[Len(rendered)][1] = "grid"
    /\ ExpectedSamples[Len(rendered) + 1][1] = "grid"
    /\ ExpectedSamples[Len(rendered) + 1][2] = rendered[Len(rendered)][2]

\* C1 (as claimed): the cache carries Baked only when every scheduled sample was
\* rendered; a job in which a sample was skipped returns with Baked not set.
C1_BakedOnlyOnFullCompletion ==
    (JobExists /\ LIGHTCACHE_BAKED \in light_cache.flag)
        => (JobReturned /\ skipped = 0)

\* C2: a sample is skipped whole or rendered whole.  With the request raised at a
\* sample boundary nothing is rendered, counted, reported or acquired; a sample
\* past the poll completes whatever is requested meanwhile; a sample starts only
\* with no request pending; what was rendered and counted stays.
C2_SampleBoundaryStep ==
    JobExists =>
        /\ (~in_sample /\ is_break) =>
                /\ rendered' = rendered
                /\ lbake'.done = lbake.done
                /\ progress' = progress
                /\ do_update' = do_update
                /\ ctx' = "none"
                /\ ~in_sample'
        /\ (~in_sample /\ in_sample') =>
                /\ ~is_break
                /\ ctx = "none" /\ ctx' = "job"
                /\ rendered' = rendered
                /\ lbake'.done = lbake.done
                /\ progress' = progress
        /\ in_sample =>
                \/ /\ in_sample'
                   /\ UNCHANGED <<rendered, lbake, progress, ctx, light_cache, pc>>
                \/ /\ ~in_sample'
                   /\ rendered' = Append(rendered, CurrentSample(pc, lbake))
                   /\ lbake'.done = lbake.done + 1
                   /\ progress' = <<lbake'.done, lbake.total>>
                   /\ do_update' = 1
                   /\ ctx = "job" /\ ctx' = "none"
        /\ IsPrefix(rendered, rendered')
        /\ lbake'.done >= lbake.done

C2_CancelAtSampleBoundaries == [][C2_SampleBoundaryStep]_vars

\* C2 witness: the request was seen at a boundary after samples were rendered,
\* and cube samples are still scheduled.
C2_Witness ==
    /\ pc = "cube"
    /\ is_break
    /\ skipped >= 1
    /\ Len(rendered) >= 2
    /\ lbake.done = Len(rendered)

\* C3 (as claimed): with the caller's *stop nonzero at a sample boundary, no
\* further sample is started or rendered.
C3_StopFlagPolled ==
    [][(stop # 0 /\ ~in_sample) => (~in_sample' /\ rendered' = rendered)]_vars

\* C4 (as claimed): after a stop once the world pass is rendered and the grids are
\* cut short, done counts the rendered samples, CubeReady and GridReady are both
\* unset and NeedsWorldUpdate is cleared.
C4_CancelledFlags ==
    (JobReturned /\ ~quick_updated /\ CancelledMidBounce)
        => /\ lbake.done = Len(rendered)
           /\ LIGHTCACHE_CUBE_READY \notin light_cache.flag
           /\ LIGHTCACHE_GRID_READY \notin light_cache.flag
           /\ LIGHTCACHE_UPDATE_WORLD \notin light_cache.flag

\* progress a < progress b, as fractions
FracLess(a, b) == a[1] * b[2] < b[1] * a[2]

\* C5: done grows by exactly 1 with each rendered sample and by 0 with each
\* skipped one and never exceeds total; every progress value written is
\* done/total, lies in [0,1], comes with do_update = 1 and exceeds the last one.
C5_CounterStep ==
    JobExists =>
        /\ rendered' # rendered =>
                /\ Len(rendered') = Len(rendered) + 1
                /\ lbake'.done = lbake.done + 1
                /\ progress' = <<lbake'.done, lbake'.total>>
                /\ do_update' = 1
                /\ FracLess(progress, progress')
        /\ rendered' = rendered =>
                /\ lbake'.done = lbake.done
                /\ progress' = progress
        /\ skipped' # skipped => rendered' = rendered
        /\ lbake'.done = Len(rendered')
        /\ lbake'.done <= lbake'.total
        /\ progress'[2] > 0
        /\ 0 <= progress'[1] /\ progress'[1] <= progress'[2]

C5_DoneAndProgress == [][C5_CounterStep]_vars

\* C5 witness: a job that rendered some samples and skipped others has returned.
C5_Witness ==
    /\ pc = "done"
    /\ Len(rendered) >= 3
    /\ skipped >= 2
    /\ progress = <<Len(rendered), lbake.total>>

\* C6 (as claimed): an uncancelled job ends with done = total, progress = 1.
C6_DoneReachesTotal ==
    (JobReturned /\ skipped = 0 /\ ~quick_updated)
        => /\ lbake.total = lbake.total_irr_samples * lbake.bounce_count + lbake.cube_count
           /\ lbake.done = lbake.total
           /\ progress[1] = progress[2]

\* C7 (as claimed): an uncancelled job has rendered exactly the world sample, then
\* the grid samples bounce by bounce, then the cube samples.
C7_SequenceWithWorld ==
    (JobReturned /\ skipped = 0) => rendered = ExpectedSamples

\* C7 (amended): while no sample was skipped, the rendered samples are a prefix
\* of: the world sample, unless a quick world update cleared NeedsWorldUpdate
\* before the job reached the world pass; then bounce by bounce, grid by grid, the
\* sample indices ascending; then the cubes.  A job that has returned has
\* rendered the whole of it.
C7_SampleSequence ==
    (JobExists /\ skipped = 0) =>
        /\ \/ IsPrefix(rendered, ExpectedSamples)
           \/ quick_updated /\ IsPrefix(rendered, ProbeSamples)
        /\ JobReturned =>
                \/ rendered = ExpectedSamples
                \/ quick_updated /\ rendered = ProbeSamples
        /\ in_sample => ctx = "job"

\* C7 witness: two bounces over a two-cell grid, then a cube, all rendered.
C7_Witness ==
    /\ pc = "done"
    /\ skipped = 0
    /\ eevee.gi_diffuse_bounces = 2
    /\ objects = <<[type |-> "GRID", res |-> <<1, 2, 1>>], [type |-> "CUBE", res |-> <<1, 1, 1>>]>>
    /\ rendered = <<WorldSample, <<"grid", 0, 1, 0>>, <<"grid", 0, 1, 1>>,
                    <<"grid", 1, 1, 0>>, <<"grid", 1, 1, 1>>, <<"cube", 1, 0, 0>>>>

WorldReadyFlags(flag) ==
    (flag \cup {LIGHTCACHE_CUBE_READY, LIGHTCACHE_GRID_READY}) \ {LIGHTCACHE_UPDATE_WORLD}

\* C8 (as claimed): the job renders the world sample exactly when NeedsWorldUpdate
\* is set as it reaches the world pass.
C8_WorldIffFlag ==
    [][(pc = "world" /\ ~in_sample /\ (pc' # "world" \/ in_sample'))
            => ((LIGHTCACHE_UPDATE_WORLD \in light_cache.flag) <=> in_sample')]_vars

\* C8 (amended): the job renders the world sample exactly when, as it reaches the
\* world pass, NeedsWorldUpdate is set and G.is_break is not; it is one sample,
\* rendered at most once, and it sets CubeReady and GridReady and clears
\* NeedsWorldUpdate, leaving the other flags as they were.
C8_WorldStep ==
    /\ (pc = "world" /\ ~in_sample /\ (pc' # "world" \/ in_sample'))
            => /\ in_sample' <=> (LIGHTCACHE_UPDATE_WORLD \in light_cache.flag /\ ~is_break)
               /\ rendered' = rendered
               /\ ~in_sample' => light_cache' = light_cache
    /\ (pc = "world" /\ in_sample /\ ~in_sample')
            => /\ rendered' = Append(rendered, WorldSample)
               /\ lbake'.done = lbake.done + 1
               /\ light_cache'.flag = WorldReadyFlags(light_cache.flag)
               /\ LIGHTCACHE_UPDATE_WORLD \in light_cache.flag
               /\ pc' # "world"
    /\ (rendered' # rendered /\ rendered'[Len(rendered')] = WorldSample)
            => (pc = "world" /\ rendered = << >>)
    /\ (JobExists /\ pc # "world") => (pc' # "world" \/ pc = "allocated")

C8_WorldPass == [][C8_WorldStep]_vars

\* C8 witness: the world sample has just been rendered and the grids are next.
C8_Witness ==
    /\ pc = "grid"
    /\ rendered = <<WorldSample>>
    /\ light_cache.flag = {LIGHTCACHE_UPDATE_CUBE, LIGHTCACHE_UPDATE_GRID, LIGHTCACHE_BAKING,
                           LIGHTCACHE_CUBE_READY, LIGHTCACHE_GRID_READY}

----------------------------------------------------------------------------
(* Properties of the cache, the execution context and the job's resources     *)
(* (checked under Spec).                                                      *)

\* The shape of a cache's textures, and the shape a job asks for.
ShapeOf(lcache) == <<lcache.grid_tx, lcache.cube_tx.width, lcache.cube_tx.layers>>
RequestedShape(lb) == <<lb.irr_size, lb.ref_cube_res, lb.cube_count>>

IsEvent(e, kind, what) == e[1] = kind /\ e[2] = what
HasEvent(tr, kind, what) == \E k \in 1..Len(tr) : IsEvent(tr[k], kind, what)

\* C13: once EEVEE_lightbake_job_data_alloc has returned, the scene has a cache
\* whose textures have the shape the job asks for; a cache that had that shape
\* already is the same allocation with its arrays and textures untouched, and
\* one that had not is freed and replaced by a newly created, zeroed cache.
C13_AllocateStep ==
    (pc = "none" /\ pc' = "allocated") =>
        LET matched == ~light_cache.null /\ ShapeOf(light_cache) = RequestedShape(lbake')
            added == SubSeq(trace', Len(trace) + 1, Len(trace'))
        IN  /\ ~light_cache'.null
            /\ ShapeOf(light_cache') = RequestedShape(lbake')
            /\ matched =>
                    /\ cache_instance' = cache_instance
                    /\ light_cache'.grid_data = light_cache.grid_data
                    /\ light_cache'.cube_data = light_cache.cube_data
                    /\ light_cache'.grid_count = light_cache.grid_count
                    /\ light_cache'.cube_count = light_cache.cube_count
                    /\ ~HasEvent(added, "free", "grid_tx")
                    /\ ~HasEvent(added, "alloc", "grid_tx")
            /\ ~matched =>
                    /\ cache_instance' = cache_instance + 1
                    /\ light_cache'.grid_count = 0
                    /\ light_cache'.cube_count = 0
                    /\ \A i \in DOMAIN light_cache'.grid_data :
                            light_cache'.grid_data[i] = ZeroGrid
                    /\ \A i \in DOMAIN light_cache'.cube_data :
                            light_cache'.cube_data[i] = ZeroCube
                    /\ HasEvent(added, "alloc", "grid_tx")
                    /\ HasEvent(added, "alloc", "cube_tx")
                    /\ ~light_cache.null <=> HasEvent(added, "free", "grid_tx")
                    /\ ~light_cache.null <=> HasEvent(added, "free", "cube_tx")

C13_ShapeMismatchRecovered == [][C13_AllocateStep]_vars

\* C13 witness: the cache of a bake made before the scene's cube probe was added
\* has been discarded and a second allocation made for the job.
C13_Witness ==
    /\ pc = "allocated"
    /\ cache_instance = 2
    /\ lbake.cube_count = 2
    /\ light_cache.cube_tx.layers = 2
    /\ HasEvent(trace, "free", "cube_tx")

\* Who holds the execution context after the events tr[k..]: "none", the kind
\* acquired, or "error" when an acquire finds it held or a release finds another
\* kind (or none) held.
RECURSIVE ContextAfter(_, _, _)
ContextAfter(tr, k, held) ==
    IF k > Len(tr) \/ held = "error" THEN held
    ELSE IF tr[k][1] = "acquire"
         THEN ContextAfter(tr, k + 1, IF held = "none" THEN tr[k][2] ELSE "error")
    ELSE IF tr[k][1] = "release"
         THEN ContextAfter(tr, k + 1, IF held = tr[k][2] THEN "none" ELSE "error")
    ELSE ContextAfter(tr, k + 1, held)

\* The events of the given kinds that occur while no context is held.
RECURSIVE Unprotected(_, _, _, _)
Unprotected(tr, k, held, kinds) ==
    IF k > Len(tr) THEN << >>
    ELSE IF tr[k][1] = "acquire" THEN Unprotected(tr, k + 1, TRUE, kinds)
    ELSE IF tr[k][1] = "release" THEN Unprotected(tr, k + 1, FALSE, kinds)
    ELSE (IF tr[k][1] \in kinds /\ ~held THEN <<tr[k]>> ELSE << >>)
            \o Unprotected(tr, k + 1, held, kinds)

\* Whether the job's gawain context is active after the events tr[k..], or
\* "error" when it is activated twice, deactivated or discarded while inactive,
\* or touched outside the render context.
RECURSIVE GawainAfter(_, _, _, _)
GawainAfter(tr, k, held, active) ==
    IF k > Len(tr) THEN IF active THEN "active" ELSE "inactive"
    ELSE IF tr[k][1] = "acquire" THEN GawainAfter(tr, k + 1, tr[k][2], active)
    ELSE IF tr[k][1] = "release"
         THEN IF active THEN "error" ELSE GawainAfter(tr, k + 1, "none", active)
    ELSE IF tr[k][1] = "activate"
         THEN IF active \/ held # "render_context" THEN "error"
              ELSE GawainAfter(tr, k + 1, held, TRUE)
    ELSE IF tr[k][1] \in {"deactivate", "discard"}
         THEN IF ~active \/ held # "render_context" THEN "error"
              ELSE GawainAfter(tr, k + 1, held, FALSE)
    ELSE GawainAfter(tr, k + 1, held, active)

\* C16: over allocation and job, in both modes, completed or cancelled: every
\* acquire finds the context free and every release gives back the kind of
\* context that was acquired, so the two alternate; the context is held exactly
\* inside a sample, never at a sample boundary and never after a function has
\* returned; the job's gawain context is active only inside the render context.
C16_ContextPaired ==
    JobExists =>
        /\ ContextAfter(trace, 1, "none") =
                (IF ~in_sample THEN "none"
                 ELSE IF lbake.gl_context THEN "render_context" ELSE "draw_context")
        /\ GawainAfter(trace, 1, "none", FALSE) =
                (IF in_sample /\ lbake.gl_context THEN "active" ELSE "inactive")
        /\ (ctx = "job") <=> in_sample
        /\ ctx \in {"none", "job"}

\* C16 witness: a background job whose later samples were cancelled has returned
\* and disposed of its context.
C16_Witness ==
    /\ pc = "done"
    /\ skipped >= 1
    /\ Len(rendered) >= 2
    /\ HasEvent(trace, "dispose", "gl_context")
    /\ ctx = "none"

C18_ReadyOnlyWhenWritten ==
    (JobRunning /\ ~quick_updated) =>
        /\ pc = "grid" => LIGHTCACHE_GRID_READY \notin light_cache.flag
        /\ pc = "cube" => LIGHTCACHE_CUBE_READY \notin light_cache.flag

\* C19 (as claimed): every write of the job to the shared cache happens while
\* the job holds the execution context.
C19_CacheWritesUnderContext ==
    Unprotected(trace, 1, FALSE, {"write"}) = << >>

\* The GPU resources and contexts the job still holds.
JobResources(lb) ==
    {r \in {"rt_depth", "rt_color", "rt_fb", "store_fb", "grid_prev",
            "gl_context", "gwn_context"} : lb[r]}

\* C20 (as claimed): once the job data is freed, whether or not the job ran, no
\* render target, framebuffer, previous-bounce texture or background context of
\* the job is left allocated.
C20_ResourcesReleased ==
    pc = "freed" => JobResources(lbake) = {}

----------------------------------------------------------------------------
(* Properties of the shared cache, the irradiance textures and the probe     *)
(* passes (checked under Spec).                                              *)

\* C21: from the return of EEVEE_lightbake_job_data_alloc until the job is freed,
\* the evaluated scene and the original scene point to the same cache, so that
\* what a sample writes through one of them is read through the other: the
\* world sample's flags and counts, the grid sample's level bias, the cube
\* sample's cube count.
C21_SameCache ==
    (JobExists /\ pc # "freed")
        => /\ ~light_cache.null
           /\ cache_instance # 0
           /\ scene_eval = cache_instance

C21_SampleStep ==
    /\ (pc = "world" /\ in_sample /\ ~in_sample')
            => /\ light_cache'.flag = WorldReadyFlags(light_cache.flag)
               /\ light_cache'.grid_count = lbake.grid_count
    /\ (pc = "grid" /\ in_sample /\ ~in_sample')
            => light_cache'.grid_data[lbake.probe].level_bias
                    \in {1, 2 * compute_cell_id(objects[lbake.grid_prb[lbake.probe]].res,
                                                lbake.grid_sample).stride}
    /\ (pc = "cube" /\ in_sample /\ ~in_sample')
            => light_cache'.cube_count = light_cache.cube_count + 1
    /\ JobRunning => UNCHANGED <<cache_instance, scene_eval>>

C21_SharedCache == [](C21_SameCache) /\ [][C21_SampleStep]_vars

\* C21 witness: a job that had to replace the scene's cache has rendered the
\* world, grid samples and cube samples, all of them into the new cache.
C21_Witness ==
    /\ pc = "finish"
    /\ skipped = 0
    /\ cache_instance = 2
    /\ scene_eval = 2
    /\ \E k \in 1..Len(rendered) : rendered[k][1] = "grid"
    /\ \E k \in 1..Len(rendered) : rendered[k][1] = "cube"
    /\ rendered[1] = WorldSample
    /\ light_cache.cube_count = lbake.cube_count

\* The gather pass of a beginning job against the count pass of its allocation:
\* the job's probe arrays have the lengths counted; grid probes take the indices
\* 1 .. grid_count-1 and cube probes 1 .. cube_count-1 in object order, planar
\* probes none; index 0 is left to the world; gathering again changes nothing
\* and arrives at the totals counted.
GatherAgreesWithCount ==
    (pc = "allocated" /\ pc' = "world")
        => LET cnt == eevee_lightbake_count_probes(objects)
               again == eevee_lightbake_gather_probes(objects, lbake', light_cache')
           IN  /\ cnt.grid_count = 1 + Len(GridObjects)
               /\ cnt.cube_count = 1 + Len(CubeObjects)
               /\ lbake.grid_count = cnt.grid_count
               /\ lbake.cube_count = cnt.cube_count
               /\ lbake.total_irr_samples = cnt.total_irr_samples
               /\ DOMAIN lbake'.grid_prb = 0..(cnt.grid_count - 1)
               /\ DOMAIN lbake'.cube_prb = 0..(cnt.cube_count - 1)
               /\ lbake'.grid_prb[0] = 0
               /\ lbake'.cube_prb[0] = 0
               /\ light_cache'.grid_data[0] = light_cache.grid_data[0]
               /\ light_cache'.cube_data[0] = light_cache.cube_data[0]
               /\ \A k \in 1..(cnt.grid_count - 1) :
                    /\ objects[lbake'.grid_prb[k]].type = "GRID"
                    /\ light_cache'.grid_data[k].resolution = objects[lbake'.grid_prb[k]].res
                    /\ k > 1 => lbake'.grid_prb[k - 1] < lbake'.grid_prb[k]
               /\ \A k \in 1..(cnt.cube_count - 1) :
                    /\ objects[lbake'.cube_prb[k]].type = "CUBE"
                    /\ light_cache'.cube_data[k].ob = lbake'.cube_prb[k]
                    /\ k > 1 => lbake'.cube_prb[k - 1] < lbake'.cube_prb[k]
               /\ again.grid_prb = lbake'.grid_prb
               /\ again.cube_prb = lbake'.cube_prb
               /\ again.grid_data = light_cache'.grid_data
               /\ again.cube_data = light_cache'.cube_data
               /\ again.grid_count = cnt.grid_count
               /\ again.cube_count = cnt.cube_count
               /\ again.total_irr_samples = cnt.total_irr_samples
               /\ lbake'.total = cnt.total_irr_samples * lbake.bounce_count + cnt.cube_count

\* The gather pass writes inside the arrays of the cache it is given.
GatherWithinArrays ==
    (pc = "allocated" /\ pc' \notin {"allocated", "freed"})
        => /\ lbake.grid_count <= Cardinality(DOMAIN light_cache.grid_data)
           /\ lbake.cube_count <= Cardinality(DOMAIN light_cache.cube_data)
           /\ pc' = "world"

\* C23 (as claimed): the gather pass agrees with the count pass on an unchanged
\* scene graph: grid probes at 1 .. gridCount-1 and cube probes at 1 .. cubeCount-1
\* in object order, no write outside the arrays, nothing for the other probe
\* types, and the same lists and totals when gathering twice.
C23_GatherMatchesCount == [][GatherAgreesWithCount /\ GatherWithinArrays]_vars

\* A step of EEVEE_lightbake_update_world_quick that changes the cache: the only
\* step that does so without moving the job.
QuickUpdateStep == light_cache' # light_cache /\ pc' = pc /\ in_sample' = in_sample

\* The quick world update sets CubeReady and GridReady and clears NeedsWorldUpdate;
\* the other flags, the probe arrays, the textures' shape and a grid_count of at
\* least 1 stay as they were, and the scheduler's counters are not touched.
QuickUpdateWorldOnly ==
    QuickUpdateStep
        => /\ light_cache'.flag = WorldReadyFlags(light_cache.flag)
           /\ light_cache'.grid_data = light_cache.grid_data
           /\ light_cache'.cube_data = light_cache.cube_data
           /\ light_cache'.grid_tx = light_cache.grid_tx
           /\ light_cache'.cube_tx = light_cache.cube_tx
           /\ light_cache'.vis_res = light_cache.vis_res
           /\ light_cache'.grid_count = Max2(1, light_cache.grid_count)
           /\ UNCHANGED <<lbake, progress, do_update, rendered, skipped, tex, irr_written>>

\* C24 (as claimed): the quick world update refreshes the world channel only:
\* it sets CubeReady and GridReady, clears NeedsWorldUpdate, leaves the other
\* flags, the arrays and a grid_count >= 1 unchanged, runs no scheduler sample,
\* and does not reduce the number of baked cube probes the cache exposes.
C24_QuickUpdateKeepsProbes ==
    [][QuickUpdateWorldOnly
        /\ (QuickUpdateStep => light_cache'.cube_count >= light_cache.cube_count)]_vars

\* A grid sample is rendered.
GridSampleStep == pc = "grid" /\ in_sample /\ ~in_sample'

\* The two swaps of a grid sample: while the scene is rendered lcache->grid_tx is
\* what lbake->grid_prev was before the sample, which holds `before`; the
\* filtering writes another texture; after the sample grid_tx is the texture it
\* was, holding the accumulated irradiance, and grid_prev is the same snapshot,
\* or after the last sample of the bounce a new one of this bounce; both are
\* live and they are two textures.
DoubleBufferedStep(before) ==
    GridSampleStep
        => /\ ~tex.grid_prev.null
           /\ tex'.read = tex.grid_prev
           /\ tex.grid_prev.holds = before
           /\ tex'.wrote # tex'.read.id
           /\ tex'.wrote = tex.grid_tx.id
           /\ tex'.grid_tx = [tex.grid_tx EXCEPT !.holds = IRRADIANCE]
           /\ ~tex'.grid_prev.null
           /\ tex'.grid_prev.id # tex'.grid_tx.id
           /\ tex'.grid_prev =
                IF Len(irr_written') = (lbake.bounce_curr + 1) * (lbake.total_irr_samples - 1)
                THEN Texture(tex.next, SnapshotOf(lbake.bounce_curr))
                ELSE tex.grid_prev

\* What grid_prev holds during bounce b: the copy made at the end of bounce b-1
\* or of the world pass; in bounce 0 of a job whose world pass was bypassed, the
\* texture eevee_lightbake_create_resources created with no data.
SnapshotRead(b) ==
    IF b = 0 /\ (rendered = << >> \/ rendered[1] # WorldSample)
    THEN UNINITIALISED
    ELSE SnapshotOf(b - 1)

DoubleBuffered == [][DoubleBufferedStep(SnapshotRead(lbake.bounce_curr))]_vars

\* C25 (as claimed): while a grid sample of bounce b renders, the cache's grid_tx
\* is the snapshot taken at the end of bounce b-1 (of the world pass for b = 0),
\* which bounce b does not write; at every sample boundary the swaps have
\* cancelled: grid_tx is the accumulating texture and grid_prev the snapshot,
\* both live and distinct.
C25_BouncesDoubleBuffered == [][DoubleBufferedStep(SnapshotOf(lbake.bounce_curr - 1))]_vars

\* The copies eevee_lightbake_copy_irradiance has made of the irradiance texture:
\* the textures allocated for grid_prev after the one of create_resources.
SnapshotCopies ==
    Cardinality({k \in 1..Len(trace) : IsEvent(trace[k], "alloc", "grid_prev")}) - 1

\* The bounces whose grid samples have all been rendered.
BouncesRendered ==
    IF Len(GridObjects) = 0 THEN 0
    ELSE Len(irr_written) \div (lbake.total_irr_samples - 1)

\* The grid sample being rendered is the last of the last grid probe.
LastSampleOfBounce ==
    /\ lbake.probe = lbake.grid_count - 1
    /\ lbake.grid_sample = CellCount(objects[lbake.grid_prb[lbake.probe]].res) - 1

C26_CopyStep ==
    /\ (JobRunning /\ tex'.next # tex.next)
            => /\ in_sample /\ ~in_sample'
               /\ pc = "world" \/ (pc = "grid" /\ LastSampleOfBounce)
               /\ tex'.next = tex.next + 1
               /\ tex'.grid_prev = Texture(tex.next,
                        SnapshotOf(IF pc = "world" THEN -1 ELSE lbake.bounce_curr))
    /\ (in_sample /\ ~in_sample' /\ (pc = "world" \/ (pc = "grid" /\ LastSampleOfBounce)))
            => tex'.next = tex.next + 1
    /\ (GridSampleStep /\ LastSampleOfBounce)
            => /\ pc' # "grid" \/ lbake'.bounce_curr = lbake.bounce_curr + 1
               /\ Len(irr_written') = (lbake.bounce_curr + 1) * (lbake.total_irr_samples - 1)

\* C26: with the grids' offsets cumulative from 1 in gather order, the snapshot
\* copy runs once in the world pass and once per bounce, in the grid sample that
\* is the last of the last grid probe, the last sample of the bounce, and in no
\* other sample, for one grid probe or several.
C26_CopyOncePerBounce ==
    /\ []((JobRunning /\ ~in_sample)
            => SnapshotCopies = (IF rendered # << >> /\ rendered[1] = WorldSample THEN 1 ELSE 0)
                                    + BouncesRendered)
    /\ [][C26_CopyStep]_vars

\* C26 witness: two bounces over two grid probes are done: three copies were
\* made, the world's and one per bounce.
C26_Witness ==
    /\ pc = "finish"
    /\ skipped = 0
    /\ Len(GridObjects) = 2
    /\ lbake.bounce_count = 2
    /\ rendered[1] = WorldSample
    /\ SnapshotCopies = 3
    /\ tex.grid_prev.holds = SnapshotOf(1)

\* The irradiance slots the grid samples of bounce b have written so far.
SlotsWritten(b) == {irr_written[k][2] : k \in {j \in 1..Len(irr_written) : irr_written[j][1] = b}}

\* The offset of the p-th grid probe when offsets are cumulative from 1.
RECURSIVE CumulativeOffset(_)
CumulativeOffset(p) ==
    IF p = 1 THEN 1 ELSE CumulativeOffset(p - 1) + CellCount(GridObjects[p - 1].res)

C27_SlotsInvariant ==
    irr_written # << >>
        => /\ \A k \in 1..Len(irr_written) :
                /\ irr_written[k][1] \in 0..(lbake.bounce_count - 1)
                /\ irr_written[k][2] \in 1..(lbake.total_irr_samples - 1)
           /\ \A j, k \in 1..Len(irr_written) : j # k => irr_written[j] # irr_written[k]
           /\ \A b \in 0..(BouncesRendered - 1) :
                SlotsWritten(b) = 1..(lbake.total_irr_samples - 1)

C27_SlotStep ==
    GridSampleStep
        => /\ light_cache.grid_data[lbake.probe].offset = CumulativeOffset(lbake.probe)
           /\ irr_written' = Append(irr_written,
                    <<lbake.bounce_curr,
                      light_cache.grid_data[lbake.probe].offset
                        + VisitOrder(objects[lbake.grid_prb[lbake.probe]].res)
                                [lbake.grid_sample + 1].final_idx>>)

\* C27: with the grids' offsets cumulative from 1, the grid samples of a bounce
\* write each irradiance slot of 1 .. totalSampleCount-1 exactly once, the slot
\* of a sample being its grid's offset plus its cell index, and never slot 0.
C27_EverySlotOnce == [](C27_SlotsInvariant) /\ [][C27_SlotStep]_vars

\* C27 witness: two bounces over two grid probes of two cells each have written
\* the slots 1 .. 4 twice over.
C27_Witness ==
    /\ pc = "finish"
    /\ skipped = 0
    /\ lbake.total_irr_samples = 5
    /\ Len(irr_written) = 8
    /\ SlotsWritten(0) = 1..4
    /\ SlotsWritten(1) = 1..4

\* The cube samples rendered so far.
CubeSamplesRendered ==
    Cardinality({k \in 1..Len(rendered) : rendered[k][1] = "cube"})

\* The cache's cube count through the reflection phase: 1 plus the cube samples
\* completed, one more with each, within the layers of the cube atlas, and the
\* counted cubeCount at the end of a job that skipped no sample.
CubeCountTracksSamples ==
    /\ (pc \in {"cube", "finish", "done"} /\ ~in_sample)
            => /\ light_cache.cube_count = 1 + CubeSamplesRendered
               /\ light_cache.cube_count <= light_cache.cube_tx.layers
               /\ light_cache.cube_tx.layers = lbake.cube_count
    /\ (pc = "done" /\ skipped = 0) => light_cache.cube_count = lbake.cube_count

CubeCountStep ==
    (pc = "cube" /\ in_sample /\ ~in_sample')
        => light_cache'.cube_count = light_cache.cube_count + 1

\* C28 (as claimed): in the reflection phase the cache's cube_count is 1 plus
\* the number of cube samples completed, it grows by exactly 1 with each, never
\* passes the layers of the cube atlas allocated for the counted cubeCount, and
\* equals that count at the end of an uncancelled job.
C28_CubeCountTracksSamples == [](CubeCountTracksSamples) /\ [][CubeCountStep]_vars

\* The flags a completed bake leaves.
BakedFlags ==
    {LIGHTCACHE_UPDATE_CUBE, LIGHTCACHE_UPDATE_GRID, LIGHTCACHE_BAKING,
     LIGHTCACHE_CUBE_READY, LIGHTCACHE_GRID_READY, LIGHTCACHE_BAKED}

C30_FlagStep ==
    /\ (pc = "none" /\ pc' = "allocated")
            => light_cache'.flag = {LIGHTCACHE_UPDATE_WORLD, LIGHTCACHE_UPDATE_CUBE,
                                   LIGHTCACHE_UPDATE_GRID, LIGHTCACHE_BAKING}
    /\ JobRunning
            => /\ (light_cache.flag \ light_cache'.flag) \subseteq {LIGHTCACHE_UPDATE_WORLD}
               /\ LIGHTCACHE_BAKING \in light_cache'.flag

\* C30: after EEVEE_lightbake_job_data_alloc and an EEVEE_lightbake_job that
\* skipped no sample, the cache's flags are exactly NeedsCubeUpdate,
\* NeedsGridUpdate, Baking, CubeReady, GridReady and Baked: the allocation sets
\* the three update flags and Baking and drops whatever a reused cache had, and
\* the job clears NeedsWorldUpdate only, never Baking.
C30_FlagsAfterBake ==
    /\ []((JobReturned /\ skipped = 0) => light_cache.flag = BakedFlags)
    /\ [][C30_FlagStep]_vars

\* C30 witness: a job that reused a baked cache has completed.
C30_Witness ==
    /\ pc = "done"
    /\ skipped = 0
    /\ cache_instance = 1
    /\ ~quick_updated
    /\ Len(rendered) > 2
    /\ light_cache.flag = BakedFlags

\* C31 (as claimed): at the end of a job that skipped no sample and ran at least
\* one bounce, the level_bias of every grid probe is 1, for one grid probe or
\* several, the grids' offsets being cumulative from 1.
C31_NoResidualLevelBias ==
    (pc = "done" /\ skipped = 0 /\ lbake.bounce_count >= 1)
        => \A p \in 1..(lbake.grid_count - 1) : light_cache.grid_data[p].level_bias = 1

\* The level_bias left by a completed job on the last grid probe, and on every
\* grid probe when a second bounce has run.
LevelBiasOfLastGrid ==
    (pc = "done" /\ skipped = 0 /\ lbake.bounce_count >= 1)
        => \A p \in 1..(lbake.grid_count - 1) :
                (p = lbake.grid_count - 1 \/ lbake.bounce_count >= 2)
                    => light_cache.grid_data[p].level_bias = 1

----------------------------------------------------------------------------
(* Termination of the job (checked under SpecFair). *)

\* The calls of lightbake_do_sample made so far: rendered, skipped or under way.
SampleSteps == Len(rendered) + skipped + (IF in_sample THEN 1 ELSE 0)

\* EEVEE_lightbake_job has returned with the job's GPU resources deleted.
JobReleasedAndReturned ==
    /\ pc = "done"
    /\ ~lbake.rt_depth /\ ~lbake.rt_color /\ ~lbake.rt_fb /\ ~lbake.store_fb
    /\ ~lbake.grid_prev
    /\ tex.grid_prev.null

\* C29: EEVEE_lightbake_job terminates: for every scene and bounce count of the
\* model, cancelled or not, it makes at most lbake->total calls of
\* lightbake_do_sample, then deletes the job's resources and returns.
C29_RunJobTerminates ==
    /\ [](JobRunning => SampleSteps <= lbake.total)
    /\ (JobRunning ~> JobReleasedAndReturned)

\* C29 witness: a job cancelled part-way has returned, its resources deleted.
C29_Witness ==
    /\ JobReleasedAndReturned
    /\ skipped > 0
    /\ Len(rendered) > 1
    /\ Len(rendered) + skipped <= lbake.total

----------------------------------------------------------------------------
(* SpecCell: one grid's sample indices 0 .. rx*ry*rz-1 fed to compute_cell_id *)
(* in ascending order, as the grid loop of the job does.                      *)

CellResolutions == (1..MaxCellRes) \X (1..MaxCellRes) \X (1..MaxCellRes)

InitCell ==
    /\ cell_res \in CellResolutions
    /\ cell_idx = 0
    /\ sweep = << >>
    /\ objects = << >>
    /\ eevee = NoScene
    /\ light_cache = NoCache
    /\ lbake = NoJob
    /\ pc = "cell"
    /\ in_sample = FALSE
    /\ is_break = FALSE
    /\ stop = 0
    /\ do_update = 0
    /\ progress = <<0, 1>>
    /\ ctx = "none"
    /\ rendered = << >>
    /\ skipped = 0
    /\ quick_updated = FALSE
    /\ trace = << >>
    /\ cache_instance = 0
    /\ scene_eval = 0
    /\ tex = InitialTextures(NoCache)
    /\ irr_written = << >>
    /\ call = NoCall
    /\ sldata = [vl \in ViewLayers |-> 0]
    /\ caches = << >>
    /\ gather = NoGather

CellSweepStep ==
    /\ pc = "cell"
    /\ cell_idx < CellCount(cell_res)
    /\ sweep' = Append(sweep, compute_cell_id(cell_res, cell_idx))
    /\ cell_idx' = cell_idx + 1
    /\ UNCHANGED <<cell_res, jobVars, fnVars, refVars>>

NextCell == CellSweepStep

SpecCell == InitCell /\ [][NextCell]_vars

----------------------------------------------------------------------------
(* Properties of the cell indexing (checked under SpecCell). *)

SweepMaxLevel == FloorLog2(MAX3(cell_res[1], cell_res[2], cell_res[3]))

\* The largest level up to max_lvl whose stride divides all three coordinates.
DivisorLevel(loc, max_lvl) ==
    CHOOSE l \in 0..max_lvl :
        /\ \A c \in 1..3 : loc[c] % Shl1(l) = 0
        /\ l < max_lvl => \E c \in 1..3 : loc[c] % Shl1(l + 1) # 0

\* C9: the sample indices 0 .. rx*ry*rz-1 map one-to-one onto the linear cell
\* indices 0 .. rx*ry*rz-1, the local cell returned is that of the linear index,
\* and sample index 0 maps to the corner cell (0,0,0).
C9_CellBijection ==
    pc = "cell" =>
        /\ Len(sweep) = cell_idx
        /\ \A k \in 1..Len(sweep) :
                /\ sweep[k].found
                /\ sweep[k].final_idx \in 0..(CellCount(cell_res) - 1)
                /\ sweep[k].local_cell[1] \in 0..(cell_res[1] - 1)
                /\ sweep[k].local_cell[2] \in 0..(cell_res[2] - 1)
                /\ sweep[k].local_cell[3] \in 0..(cell_res[3] - 1)
                /\ sweep[k].final_idx =
                        (sweep[k].local_cell[1] * cell_res[2] + sweep[k].local_cell[2])
                            * cell_res[3] + sweep[k].local_cell[3]
        /\ \A j, k \in 1..Len(sweep) : j # k => sweep[j].final_idx # sweep[k].final_idx
        /\ Len(sweep) >= 1 =>
                /\ sweep[1].final_idx = 0
                /\ sweep[1].local_cell = <<0, 0, 0>>
        /\ cell_idx = CellCount(cell_res) =>
                {sweep[k].final_idx : k \in 1..Len(sweep)} = 0..(CellCount(cell_res) - 1)

\* C9 witness: the full sweep of a 3 x 4 x 2 grid.
C9_Witness ==
    /\ pc = "cell"
    /\ cell_res = <<3, 4, 2>>
    /\ cell_idx = 24
    /\ Len(sweep) = 24

\* C10: the stride returned never grows along the sweep, cells of one stride come
\* in ascending linear order, and the stride of a cell is 2^level for the largest
\* level, at most maxLevel = floor(log2(max(rx,ry,rz))), whose stride divides all
\* three coordinates; the corner cell (0,0,0) has level maxLevel.
C10_CoarsestFirst ==
    pc = "cell" =>
        /\ \A k \in 1..Len(sweep) :
                sweep[k].stride = Shl1(DivisorLevel(sweep[k].local_cell, SweepMaxLevel))
        /\ \A k \in 1..(Len(sweep) - 1) :
                /\ sweep[k].stride >= sweep[k + 1].stride
                /\ sweep[k].stride = sweep[k + 1].stride
                        => sweep[k].final_idx < sweep[k + 1].final_idx
        /\ Len(sweep) >= 1 =>
                /\ sweep[1].local_cell = <<0, 0, 0>>
                /\ sweep[1].stride = Shl1(SweepMaxLevel)

\* C10 witness: the full sweep of a 4 x 3 x 2 grid, from stride 4 down to 1.
C10_Witness ==
    /\ pc = "cell"
    /\ cell_res = <<4, 3, 2>>
    /\ cell_idx = 24
    /\ sweep[1].stride = 4
    /\ sweep[2].stride = 2
    /\ sweep[24].stride = 1

----------------------------------------------------------------------------
(* SpecFn: the functions of the light cache and of the cell indexing called   *)
(* on arguments drawn from bounded sets; a behaviour makes one call and call  *)
(* holds it.                                                                  *)

InitFn ==
    /\ call = NoCall
    /\ pc = "fn"
    /\ cell_res = <<1, 1, 1>>
    /\ cell_idx = 0
    /\ sweep = << >>
    /\ objects = << >>
    /\ eevee = NoScene
    /\ light_cache = NoCache
    /\ lbake = NoJob
    /\ in_sample = FALSE
    /\ is_break = FALSE
    /\ stop = 0
    /\ do_update = 0
    /\ progress = <<0, 1>>
    /\ ctx = "none"
    /\ rendered = << >>
    /\ skipped = 0
    /\ quick_updated = FALSE
    /\ trace = << >>
    /\ cache_instance = 0
    /\ scene_eval = 0
    /\ tex = InitialTextures(NoCache)
    /\ irr_written = << >>
    /\ sldata = [vl \in ViewLayers |-> 0]
    /\ caches = << >>
    /\ gather = NoGather

\* compute_cell_id on a sample index inside or outside the grid.
CallComputeCellId ==
    /\ pc = "fn"
    /\ call = NoCall
    /\ \E res \in CellResolutions :
       \E idx \in (0 - MaxOutOfRange)..(CellCount(res) - 1 + MaxOutOfRange) :
            call' = [fn |-> "compute_cell_id", res |-> res, idx |-> idx,
                     result |-> compute_cell_id(res, idx)]
    /\ UNCHANGED <<jobVars, cellVars, refVars>>

\* The texture shapes the calls are made on.
IrradianceSizes == {16, 32} \X {16, 32} \X {9, 33}
CubeResolutions == {157, 314}
CubeCounts == {1, 2}

\* A cache with textures of every shape, or no cache.
ShapedCaches ==
    {NoCache} \cup
    {EEVEE_lightcache_create(1, cube_count, cube_res, irr_size) :
        cube_count \in CubeCounts, cube_res \in CubeResolutions, irr_size \in IrradianceSizes}

CallValidate ==
    /\ pc = "fn"
    /\ call = NoCall
    /\ \E lcache \in ShapedCaches, cube_count \in CubeCounts,
          cube_res \in CubeResolutions, irr_size \in IrradianceSizes :
            call' = [fn |-> "validate", lcache |-> lcache, cube_count |-> cube_count,
                     cube_res |-> cube_res, irr_size |-> irr_size,
                     result |-> EEVEE_lightcache_validate(lcache, cube_count, cube_res, irr_size)]
    /\ UNCHANGED <<jobVars, cellVars, refVars>>

\* EEVEE_lightcache_create, each of its two texture creations succeeding or not.
CallCreate ==
    /\ pc = "fn"
    /\ call = NoCall
    /\ \E grid_tx_made \in BOOLEAN, cube_tx_made \in BOOLEAN, cube_count \in CubeCounts,
          cube_res \in CubeResolutions, irr_size \in IrradianceSizes :
            call' = [fn |-> "create", grid_tx_made |-> grid_tx_made,
                     cube_tx_made |-> cube_tx_made, cube_count |-> cube_count,
                     cube_res |-> cube_res, irr_size |-> irr_size,
                     result |-> EEVEE_lightcache_create_gpu(
                                    [grid_tx |-> grid_tx_made, cube_tx |-> cube_tx_made],
                                    1, cube_count, cube_res, irr_size)]
    /\ UNCHANGED <<jobVars, cellVars, refVars>>

\* The visibility resolutions and the sample totals irradiance_pool_size_get
\* is called on.
VisibilitySizes == {4, 8, 16, 32, 64, 128, 256, 512, 1024}
PoolSampleTotals == 1..MaxPoolSamples

\* irradiance_pool_size_get on a sample total, and on the next one.
CallPoolSize ==
    /\ pc = "fn"
    /\ call = NoCall
    /\ \E visibility_size \in VisibilitySizes, total_samples \in PoolSampleTotals :
            call' = [fn |-> "irradiance_pool_size_get",
                     visibility_size |-> visibility_size,
                     total_samples |-> total_samples,
                     result |-> irradiance_pool_size_get(visibility_size, total_samples),
                     result_of_next |->
                            irradiance_pool_size_get(visibility_size, total_samples + 1)]
    /\ UNCHANGED <<jobVars, cellVars, refVars>>

NextFn ==
    \/ CallComputeCellId
    \/ CallValidate
    \/ CallCreate
    \/ CallPoolSize

SpecFn == InitFn /\ [][NextFn]_vars

\* The bake job and the function calls side by side: a behaviour is one or the other.
SpecJobFn == (Init \/ InitFn) /\ [][Next \/ NextFn]_vars

----------------------------------------------------------------------------
(* Properties of the function calls. *)

\* C11: compute_cell_id runs out of cells (reaches BLI_assert(0)) exactly when the
\* sample index is outside 0 .. rx*ry*rz-1; every grid sample the job is about to
\* render or is rendering has its index inside the grid of its probe, so the job
\* never reaches the assertion.
C11_AssertOnlyOutOfRange ==
    /\ call.fn = "compute_cell_id" =>
            (call.result.found <=> (0 <= call.idx /\ call.idx < CellCount(call.res)))
    /\ pc = "grid" =>
            LET res == objects[lbake.grid_prb[lbake.probe]].res
            IN  /\ 0 <= lbake.grid_sample
                /\ lbake.grid_sample < CellCount(res)
                /\ compute_cell_id(res, lbake.grid_sample).found

\* C11 witness: the index one past the last cell of a 2 x 3 x 4 grid runs the
\* search out.
C11_Witness ==
    /\ call.fn = "compute_cell_id"
    /\ call.res = <<2, 3, 4>>
    /\ call.idx = 24
    /\ ~call.result.found

\* C12: validate returns true exactly when the cache is not NULL and the width,
\* height and layers of grid_tx, the width of cube_tx and the layers of cube_tx
\* all equal the requested ones; so one mismatched dimension alone returns false.
C12_ValidateIffShapeMatches ==
    call.fn = "validate" =>
        LET c == call.lcache
            mismatches ==
                IF c.null THEN {}
                ELSE {d \in 1..3 : call.irr_size[d] # c.grid_tx[d]}
                        \cup (IF call.cube_res # c.cube_tx.width THEN {4} ELSE {})
                        \cup (IF call.cube_count # c.cube_tx.layers THEN {5} ELSE {})
        IN  /\ call.result <=> (~c.null /\ mismatches = {})
            /\ c.null => ~call.result
            /\ Cardinality(mismatches) = 1 => ~call.result

\* C12 witness: a cache that differs from the request in the layers of grid_tx
\* only is refused.
C12_Witness ==
    /\ call.fn = "validate"
    /\ ~call.lcache.null
    /\ call.irr_size = <<16, 16, 33>>
    /\ call.lcache.grid_tx = <<16, 16, 9>>
    /\ call.cube_res = call.lcache.cube_tx.width
    /\ call.cube_count = call.lcache.cube_tx.layers
    /\ ~call.result

\* What create would report on a failed texture creation.
AllocationError == [error |-> "AllocationError"]

\* C15 (as claimed): when one of the two texture creations fails, create reports
\* an AllocationError and returns no cache with a missing texture.
C15_CreateFailsOnMissingTexture ==
    (call.fn = "create" /\ ~(call.grid_tx_made /\ call.cube_tx_made))
        => call.result = AllocationError

\* The result of irradiance_pool_size_get does not shrink as the total grows,
\* and its width and layer count are within the pool's maxima.
PoolSizeMonotone ==
    call.fn = "irradiance_pool_size_get"
        => /\ \A i \in 1..3 : call.result[i] <= call.result_of_next[i]
           /\ call.result[1] <= IRRADIANCE_MAX_POOL_SIZE
           /\ call.result[3] <= IRRADIANCE_MAX_POOL_LAYER

\* C22 (as claimed): for a fixed visibility size, no component of the result of
\* irradiance_pool_size_get decreases when the sample total grows, and the result
\* is within the pool's maxima: width and height at most 1024, layers at most 256.
C22_PoolSizeBounded ==
    call.fn = "irradiance_pool_size_get"
        => /\ \A i \in 1..3 : call.result[i] <= call.result_of_next[i]
           /\ call.result[1] <= IRRADIANCE_MAX_POOL_SIZE
           /\ call.result[2] <= IRRADIANCE_MAX_POOL_SIZE
           /\ call.result[3] <= IRRADIANCE_MAX_POOL_LAYER

\* The irradiance samples a pool of the given size has room for: one per
\* visibility-sized texel of a layer, in every layer but the first.
PoolCapacity(visibility_size, size) ==
    (size[1] \div visibility_size) * (size[2] \div visibility_size) * (size[3] - 1)

\* C32 (as claimed): the pool irradiance_pool_size_get sizes has room for every
\* sample, for every sample total and every visibility size that is a power of
\* two from 4 to 1024.
C32_PoolHoldsEverySample ==
    call.fn = "irradiance_pool_size_get"
        => PoolCapacity(call.visibility_size, call.result) >= call.total_samples

\* The pool has room for every sample as long as its texels fit in one row.
PoolHoldsOneRow ==
    (/\ call.fn = "irradiance_pool_size_get"
     /\ call.result[2] = call.visibility_size
     /\ call.result[1] < IRRADIANCE_MAX_POOL_SIZE)
        => PoolCapacity(call.visibility_size, call.result) >= call.total_samples

----------------------------------------------------------------------------
(* SpecRefcount: the reference-counted cache of the view-layer data.  caches  *)
(* is the heap: caches[c] is the c-th cache allocated, with its refcount and  *)
(* whether its textures, arrays and memory have been freed; sldata[vl] is the *)
(* light_cache pointer of view-layer data vl, 0 when NULL.  A call that would *)
(* touch a freed cache is a use after free; the behaviours stop short of it.  *)

InitRefcount ==
    /\ sldata = [vl \in ViewLayers |-> 0]
    /\ caches = << >>
    /\ gather = NoGather
    /\ pc = "refcount"
    /\ call = NoCall
    /\ cell_res = <<1, 1, 1>>
    /\ cell_idx = 0
    /\ sweep = << >>
    /\ objects = << >>
    /\ eevee = NoScene
    /\ light_cache = NoCache
    /\ lbake = NoJob
    /\ in_sample = FALSE
    /\ is_break = FALSE
    /\ stop = 0
    /\ do_update = 0
    /\ progress = <<0, 1>>
    /\ ctx = "none"
    /\ rendered = << >>
    /\ skipped = 0
    /\ quick_updated = FALSE
    /\ trace = << >>
    /\ cache_instance = 0
    /\ scene_eval = 0
    /\ tex = InitialTextures(NoCache)
    /\ irr_written = << >>

\* The cache c is allocated and not freed.
LiveCache(c) == c \in 1..Len(caches) /\ ~caches[c].freed

\* EEVEE_lightcache_free on cache c of the heap cs: the count goes down and at
\* zero the cache is freed.
EEVEE_lightcache_free(cs, c) ==
    [cs EXCEPT ![c] = [refcount |-> cs[c].refcount - 1,
                       freed |-> (cs[c].refcount - 1 = 0)]]

\* EEVEE_lightcache_ensure: a view-layer data without a cache gets a new one.
EEVEE_lightcache_ensure(vl) ==
    /\ pc = "refcount"
    /\ IF sldata[vl] = 0
       THEN /\ Len(caches) < MaxCaches
            /\ caches' = Append(caches, [refcount |-> 1, freed |-> FALSE])
            /\ sldata' = [sldata EXCEPT ![vl] = Len(caches) + 1]
       ELSE /\ LiveCache(sldata[vl])
            /\ UNCHANGED <<sldata, caches>>
    /\ UNCHANGED <<jobVars, cellVars, fnVars, gather>>

\* EEVEE_lightcache_add_reference: view-layer data vl takes the cache lcache that
\* another view-layer data holds.
EEVEE_lightcache_add_reference(vl, lcache) ==
    /\ pc = "refcount"
    /\ LiveCache(lcache)
    /\ \E other \in ViewLayers : sldata[other] = lcache
    /\ LET counted == [caches EXCEPT ![lcache].refcount = @ + 1]
       IN  caches' = IF sldata[vl] # 0
                     THEN EEVEE_lightcache_free(counted, lcache)
                     ELSE counted
    /\ sldata' = [sldata EXCEPT ![vl] = lcache]
    /\ UNCHANGED <<jobVars, cellVars, fnVars, gather>>

\* A view-layer data is freed: it calls EEVEE_lightcache_free on its cache and
\* its pointer is gone.
ReleaseCache(vl) ==
    /\ pc = "refcount"
    /\ sldata[vl] # 0
    /\ LiveCache(sldata[vl])
    /\ caches' = EEVEE_lightcache_free(caches, sldata[vl])
    /\ sldata' = [sldata EXCEPT ![vl] = 0]
    /\ UNCHANGED <<jobVars, cellVars, fnVars, gather>>

NextRefcount ==
    \/ \E vl \in ViewLayers : EEVEE_lightcache_ensure(vl)
    \/ \E vl \in ViewLayers, lcache \in 1..MaxCaches : EEVEE_lightcache_add_reference(vl, lcache)
    \/ \E vl \in ViewLayers : ReleaseCache(vl)

SpecRefcount == InitRefcount /\ [][NextRefcount]_vars

\* C14 (as claimed): a cache is freed only at reference count zero, that is,
\* never while the original or the evaluated view-layer data still points to it.
C14_FreedOnlyUnreferenced ==
    \A c \in 1..Len(caches) :
        caches[c].freed =>
            /\ caches[c].refcount = 0
            /\ \A vl \in ViewLayers : sldata[vl] # c

\* The view-layer data whose light_cache points to cache c.
Holders(ptrs, c) == {vl \in ViewLayers : ptrs[vl] = c}

\* A view-layer data that held a cache has been given another one.
ReferenceReplaced(vl) ==
    /\ sldata[vl] # 0
    /\ sldata'[vl] # 0
    /\ sldata'[vl] # sldata[vl]

\* C33 (as claimed): a live cache's refcount is the number of view-layer data
\* pointing to it; EEVEE_lightcache_add_reference on a view-layer data that
\* holds a cache releases that cache and leaves the count of the cache it is
\* given one higher than before.
C33_RefcountIsHolders ==
    /\ [](\A c \in 1..Len(caches) :
            LiveCache(c) => caches[c].refcount = Cardinality(Holders(sldata, c)))
    /\ [][\A vl \in ViewLayers :
            ReferenceReplaced(vl)
                => /\ caches'[sldata'[vl]].refcount = caches[sldata'[vl]].refcount + 1
                   /\ caches'[sldata[vl]].refcount = caches[sldata[vl]].refcount - 1]_vars

\* The refcount is the number of holders as long as no view-layer data that
\* holds a cache has been given another one.
RefcountIsHoldersStep ==
    (/\ \A c \in 1..Len(caches) :
            LiveCache(c) => caches[c].refcount = Cardinality(Holders(sldata, c))
     /\ \A vl \in ViewLayers : sldata[vl] = 0 \/ sldata'[vl] = sldata[vl] \/ sldata'[vl] = 0)
        => \A c \in 1..Len(caches') :
                LiveCache(c)' => caches'[c].refcount = Cardinality(Holders(sldata', c))

----------------------------------------------------------------------------
(* SpecGather: eevee_lightcache_gather_probes of the older eevee_lightcache.c *)
(* run over a scene, one object a step.  gather holds the counts, the lengths *)
(* in elements of the four arrays as the reallocations leave them, and the    *)
(* writes made, each with the index written and the length of its array then. *)
(* A write past the end is undefined: the loop goes on or the job dies.       *)

\* The lengths of the cache's cube_data and grid_data as the pass finds them:
\* NULL, replaced by a one-byte block that holds no element, or the arrays an
\* earlier pass left for a scene with probes.
PriorArrayLengths == {0} \cup 2..(MaxObjects + 1)

\* The head of eevee_lightcache_gather_probes, up to the loop.
gather_probes_begin(grid_data_len, cube_data_len) ==
    [null |-> FALSE,
     ob |-> 1,
     crashed |-> FALSE,
     grid_count |-> 1,
     cube_count |-> 1,
     grid_prb |-> 1,
     cube_prb |-> 1,
     grid_data |-> grid_data_len,
     cube_data |-> cube_data_len,
     writes |-> {}]

Write(array, index, length) == [array |-> array, index |-> index, length |-> length]

\* The body of the loop on a grid probe: grid_data is reallocated to grid_count
\* elements and grid_prb to cube_count elements, then the last grid index of
\* both is written.
gather_grid_probe(g) ==
    LET grid_count == g.grid_count + 1
    IN  [g EXCEPT
            !.grid_count = grid_count,
            !.grid_data = grid_count,
            !.grid_prb = g.cube_count,
            !.writes = @ \cup {Write("grid_data", grid_count - 1, grid_count),
                               Write("grid_prb", grid_count - 1, g.cube_count)}]

\* The body of the loop on a cube probe.
gather_cube_probe(g) ==
    LET cube_count == g.cube_count + 1
    IN  [g EXCEPT
            !.cube_count = cube_count,
            !.cube_data = cube_count,
            !.cube_prb = cube_count,
            !.writes = @ \cup {Write("cube_data", cube_count - 1, cube_count),
                               Write("cube_prb", cube_count - 1, cube_count)}]

\* One iteration of the loop, on object ob.
eevee_lightcache_gather_probes(g, ob) ==
    LET done == IF ob.type = "GRID" THEN gather_grid_probe(g)
                ELSE IF ob.type = "CUBE" THEN gather_cube_probe(g)
                ELSE g
    IN  [done EXCEPT !.ob = @ + 1]

OutOfBounds(w) == w.index >= w.length

InitGather ==
    /\ objects \in Scenes
    /\ \E grid_data_len \in PriorArrayLengths, cube_data_len \in PriorArrayLengths :
            gather = gather_probes_begin(grid_data_len, cube_data_len)
    /\ pc = "gather"
    /\ call = NoCall
    /\ cell_res = <<1, 1, 1>>
    /\ cell_idx = 0
    /\ sweep = << >>
    /\ eevee = NoScene
    /\ light_cache = NoCache
    /\ lbake = NoJob
    /\ in_sample = FALSE
    /\ is_break = FALSE
    /\ stop = 0
    /\ do_update = 0
    /\ progress = <<0, 1>>
    /\ ctx = "none"
    /\ rendered = << >>
    /\ skipped = 0
    /\ quick_updated = FALSE
    /\ trace = << >>
    /\ cache_instance = 0
    /\ scene_eval = 0
    /\ tex = InitialTextures(NoCache)
    /\ irr_written = << >>
    /\ sldata = [vl \in ViewLayers |-> 0]
    /\ caches = << >>

GatherProbe ==
    /\ pc = "gather"
    /\ ~gather.crashed
    /\ gather.ob <= Len(objects)
    /\ LET g == eevee_lightcache_gather_probes(gather, objects[gather.ob])
       IN  \/ gather' = g
           \/ /\ \E w \in g.writes \ gather.writes : OutOfBounds(w)
              /\ gather' = [g EXCEPT !.crashed = TRUE]
    /\ UNCHANGED <<jobVars, cellVars, fnVars, sldata, caches>>

NextGather == GatherProbe

SpecGather == InitGather /\ [][NextGather]_vars

\* C34 (as claimed): every write of eevee_lightcache_gather_probes to grid_prb,
\* cube_prb, grid_data and cube_data, at the last index counted, is inside the
\* array as it is allocated at that moment, whatever the scene.
C34_GatherWritesInBounds ==
    pc = "gather" => \A w \in gather.writes : ~OutOfBounds(w)

\* The writes to grid_data, cube_data and cube_prb are inside their arrays.
GatherWritesButGridPrb ==
    pc = "gather"
        => \A w \in gather.writes : w.array # "grid_prb" => ~OutOfBounds(w)

=============================================================================
